---- MODULE Spec2Model ----
(***************************************************************************)
(* State-machine model of the client state kept by the App component of    *)
(* frontend/src/App.tsx: the optimistic like / visibility mutations of the *)
(* gallery, comments, upload and clearGallery, the debounced user search,  *)
(* the profile navigation, and login, registration and logout.             *)
(*                                                                         *)
(* One action is one event-loop task of the browser: a user event handler  *)
(* together with the React effects its state changes trigger, or the       *)
(* continuation of one awaited backend call.                               *)
(***************************************************************************)
EXTENDS Integers, Sequences, FiniteSets, Bags, TLC

None == "none"
\* null for values that are objects, and for references to timers / controllers
Null == [null |-> TRUE]
NoId == <<>>
Id(n) == <<n>>

(***************************************************************************)
(* Bounds of the model.                                                    *)
(***************************************************************************)
\* posts owned by the session user, shown in the gallery
NumItems == 2
\* likes each post has from users other than the session user
OtherLikes == 1
\* runs of the handlers that write the gallery, in one behaviour
MaxMutations == 2

\* runs of the search effect that start a debounce timer, in one behaviour
MaxSearchEffects == 3
\* awaited calls other than searches that may be unsettled at one time
MaxPending == 2

VARIABLES
    \* ---- session
    currentUser,        \* useState currentUser: the logged-in user, or None
    storedUserId,       \* localStorage "userId", or None
    isAuthenticated,    \* useState isAuthenticated
    showRegister,       \* useState showRegister
    storedAuth,         \* localStorage "hayai-auth": the marker, or Null
    storedToken,        \* localStorage "hayai-token", or None
    storedRefreshToken, \* localStorage "hayai-refresh-token", or None
    \* ---- gallery and its mutations
    gallery,            \* useState gallery: sequence of GalleryItem
    message,            \* useState message: the status message shown
    pending,            \* bag of the awaited backend calls not yet settled
    backend,            \* what the server holds per post for the session user
    log,                \* history: the mutation events so far
    \* ---- navigation
    activePage,         \* useState activePage
    currentView,        \* useState currentView
    \* ---- profile context
    viewingProfile,     \* useState viewingProfile: a UserProfile, or Null
    viewingProfileStats,\* useState viewingProfileStats: follow counts, or Null
    isFollowing,        \* useState isFollowing
    userFollowers,      \* useState userFollowers: own follower count
    userFollowing,      \* useState userFollowing: own following count
    commentingItem,     \* useState commentingItem: the item of the open
                        \* comment modal, or null
    profileClick,       \* history: the user passed to the last handleViewProfile
                        \* since the last handleBackToMyProfile, if any
    \* ---- search
    search              \* the search session, see SearchInit

sessionVars  == <<currentUser, storedUserId, isAuthenticated, showRegister,
                  storedAuth, storedToken, storedRefreshToken>>
mutationVars == <<gallery, message, pending, backend, log>>
navVars      == <<activePage, currentView>>
profileVars  == <<viewingProfile, viewingProfileStats, isFollowing,
                  userFollowers, userFollowing, profileClick>>
vars == <<currentUser, storedUserId, gallery, message, pending, backend, log,
          activePage, currentView, viewingProfile, viewingProfileStats,
          isFollowing, userFollowers, userFollowing, profileClick, search,
          commentingItem, isAuthenticated, showRegister, storedAuth,
          storedToken, storedRefreshToken>>

(***************************************************************************)
(* Values                                                                  *)
(***************************************************************************)
Me == "me"
Users == {"me", "u2", "u3"}
ItemIndex == 1..NumItems
\* original_filename of the i-th post of user u, and the gallery id made of it
PostRef(u, i) == <<"post", u, i>>
ItemId(u, i) == <<"backend", i, PostRef(u, i)>>
Posts == {PostRef(u, i) : u \in Users, i \in ItemIndex}
Visibilities == {"public", "private"}

NoMessage      == [type |-> "none",    text |-> ""]
MsgLikeSignIn  == [type |-> "error",   text |-> "like: must sign in"]
MsgLikeFailed  == [type |-> "error",   text |-> "like failed"]
MsgVisChanged  == [type |-> "success", text |-> "visibility changed"]
MsgVisFailed   == [type |-> "error",   text |-> "visibility failed"]
MsgBioUpdated  == [type |-> "success", text |-> "bio updated"]
MsgBioFailed   == [type |-> "error",   text |-> "bio update failed"]

\* a call is made / a call settles
Issue(p, reqs) == p (+) SetToBag(reqs)
Settle(p, req) == p (-) SetToBag({req})
InFlight == BagToSet(pending)

\* getCurrentUserId: null without a current user or without a stored id
getCurrentUserId == IF currentUser = None THEN None ELSE storedUserId

(***************************************************************************)
(* The server (not part of the client code): a like call that succeeds     *)
(* puts the session user into the post's like set, an unlike call removes  *)
(* it, a visibility call stores the value sent, a comment call adds a      *)
(* comment record with a fresh id; a failed call changes nothing.          *)
(***************************************************************************)
\* the comment record the server creates for a comment call
ServerComment(b, req) ==
    [id |-> Len(b[req.ref].comments) + 1, presetId |-> req.presetId,
     author |-> req.user]

BackendApply(b, req) ==
    CASE req.kind = "like"       -> [b EXCEPT ![req.ref].liked = TRUE]
      [] req.kind = "comment"    ->
            [b EXCEPT ![req.ref].comments = Append(@, ServerComment(b, req))]
      [] req.kind = "unlike"     -> [b EXCEPT ![req.ref].liked = FALSE]
      [] req.kind = "visibility" -> [b EXCEPT ![req.ref].visibility = req.value]
      [] OTHER                   -> b

\* fetchBackendGallery's mapping of the i-th post of user u to a gallery
\* item; liked says whether the session user is in the post's liked_by
MapPost(u, i, b, currentUserId) ==
    LET post == b[PostRef(u, i)] IN
    [id               |-> ItemId(u, i),
     originalFilename |-> PostRef(u, i),
     likeCount        |-> post.others + (IF post.liked THEN 1 ELSE 0),
     isLiked          |-> IF currentUserId # None THEN post.liked ELSE FALSE,
     commentCount     |-> Len(post.comments),
     comments         |-> post.comments,
     visibility       |-> post.visibility]

\* the gallery fetchBackendGallery stores for the posts of user u
FetchedGallery(u, b, currentUserId) ==
    [i \in ItemIndex |-> MapPost(u, i, b, currentUserId)]

(***************************************************************************)
(* Optimistic mutations                                                    *)
(***************************************************************************)
LikeUpdaterDecrement(prev, item) ==
    [k \in DOMAIN prev |->
        IF prev[k].id = item.id
        THEN [prev[k] EXCEPT !.isLiked = ~prev[k].isLiked,
                             !.likeCount = prev[k].likeCount - 1]
        ELSE prev[k]]

\* handleToggleLike, step 1: the updater passed to setGallery
LikeUpdater(prev, item) ==
    [k \in DOMAIN prev |->
        IF prev[k].id = item.id
        THEN [prev[k] EXCEPT !.isLiked = ~prev[k].isLiked,
                             !.likeCount = IF prev[k].isLiked
                                           THEN prev[k].likeCount - 1
                                           ELSE prev[k].likeCount + 1]
        ELSE prev[k]]

\* handleToggleVisibility: the value written locally and sent
NewVisibility(item) == IF item.visibility = "public" THEN "private" ELSE "public"

\* handleToggleVisibility, step 1: the updater passed to setGallery
VisibilityUpdater(prev, item) ==
    [k \in DOMAIN prev |->
        IF prev[k].id = item.id
        THEN [prev[k] EXCEPT !.visibility = NewVisibility(item)]
        ELSE prev[k]]

\* const oldGallery = [...gallery]: the collection the handler's render saw
Snapshot(g) == g

RollbackMissing(g, req) == g

\* the catch branch: setGallery(oldGallery)
Rollback(g, req) == req.oldGallery

LikeRequestByNewValue(item, old) ==
    [kind |-> IF item.isLiked THEN "like" ELSE "unlike",
     ref |-> item.originalFilename, value |-> None,
     oldGallery |-> old, id |-> item.id, pre |-> gallery, n |-> Len(log) + 1]

\* the request awaited by handleToggleLike, chosen by the item's isLiked
LikeRequest(item, old) ==
    [kind |-> IF item.isLiked THEN "unlike" ELSE "like",
     ref |-> item.originalFilename, value |-> None,
     oldGallery |-> old, id |-> item.id, pre |-> gallery, n |-> Len(log) + 1]

VisibilityRequest(item, old) ==
    [kind |-> "visibility",
     ref |-> item.originalFilename, value |-> NewVisibility(item),
     oldGallery |-> old, id |-> item.id, pre |-> gallery, n |-> Len(log) + 1]

\* History only: id and kind of the mutation, the gallery its handler found
\* (pre) and the position of its start event in the log (n).
Event(ev, req) ==
    [ev |-> ev, id |-> req.id, kind |-> req.kind, pre |-> req.pre, n |-> req.n]

\* History only: the handler calls made so far, with or without a session
Calls ==
    Cardinality({k \in DOMAIN log : log[k].ev \in {"start", "nosession", "absent"}})

HandleToggleLike(i) ==
    /\ i \in DOMAIN gallery
    /\ Calls < MaxMutations
    /\ IF getCurrentUserId = None
       THEN /\ message' = MsgLikeSignIn
            /\ log' = Append(log, Event("nosession", LikeRequest(gallery[i], gallery)))
            /\ UNCHANGED <<gallery, pending, backend>>
       ELSE LET item == gallery[i]
                req == LikeRequest(item, Snapshot(gallery))
            IN  /\ gallery' = LikeUpdater(gallery, item)
                /\ pending' = Issue(pending, {req})
                /\ log' = Append(log, Event("start", req))
                /\ UNCHANGED <<message, backend>>
    /\ UNCHANGED <<sessionVars, commentingItem, navVars, profileVars, search>>

HandleToggleVisibility(i) ==
    /\ i \in DOMAIN gallery
    /\ Calls < MaxMutations
    /\ IF getCurrentUserId = None
       THEN /\ log' = Append(log, Event("nosession",
                                        VisibilityRequest(gallery[i], gallery)))
            /\ UNCHANGED <<gallery, message, pending, backend>>
       ELSE LET item == gallery[i]
                req == VisibilityRequest(item, Snapshot(gallery))
            IN  /\ gallery' = VisibilityUpdater(gallery, item)
                /\ pending' = Issue(pending, {req})
                /\ log' = Append(log, Event("start", req))
                /\ UNCHANGED <<message, backend>>
    /\ UNCHANGED <<sessionVars, commentingItem, navVars, profileVars, search>>

\* the like / unlike call resolves: nothing more is written
LikeSucceeds(r) ==
    /\ r \in InFlight
    /\ r.kind \in {"like", "unlike"}
    /\ backend' = BackendApply(backend, r)
    /\ pending' = Settle(pending, r)
    /\ log' = Append(log, Event("ok", r))
    /\ UNCHANGED <<gallery, message>>
    /\ UNCHANGED <<sessionVars, commentingItem, navVars, profileVars, search>>

\* the like / unlike call rejects: the catch branch of handleToggleLike
LikeFails(r) ==
    /\ r \in InFlight
    /\ r.kind \in {"like", "unlike"}
    /\ gallery' = Rollback(gallery, r)
    /\ message' = MsgLikeFailed
    /\ pending' = Settle(pending, r)
    /\ log' = Append(log, Event("fail", r))
    /\ UNCHANGED backend
    /\ UNCHANGED <<sessionVars, commentingItem, navVars, profileVars, search>>

VisibilitySucceeds(r) ==
    /\ r \in InFlight
    /\ r.kind = "visibility"
    /\ backend' = BackendApply(backend, r)
    /\ message' = MsgVisChanged
    /\ pending' = Settle(pending, r)
    /\ log' = Append(log, Event("ok", r))
    /\ UNCHANGED gallery
    /\ UNCHANGED <<sessionVars, commentingItem, navVars, profileVars, search>>

VisibilityFails(r) ==
    /\ r \in InFlight
    /\ r.kind = "visibility"
    /\ gallery' = Rollback(gallery, r)
    /\ message' = MsgVisFailed
    /\ pending' = Settle(pending, r)
    /\ log' = Append(log, Event("fail", r))
    /\ UNCHANGED backend
    /\ UNCHANGED <<sessionVars, commentingItem, navVars, profileVars, search>>

(***************************************************************************)
(* Comments: the comment modal and handleAddComment                        *)
(***************************************************************************)
MsgCommentSignIn == [type |-> "error",   text |-> "comment: must sign in"]
MsgCommentAdded  == [type |-> "success", text |-> "comment added"]
MsgCommentFailed == [type |-> "error",   text |-> "comment failed"]

\* the predefined comments offered by the modal
Presets == {1, 2}

\* the POST awaited by handleAddComment for the modal's item
CommentRequest(item, presetId) ==
    [kind |-> "comment", ref |-> item.originalFilename, value |-> None,
     presetId |-> presetId, user |-> getCurrentUserId,
     id |-> item.id, pre |-> gallery, n |-> Len(log) + 1]

CommentUpdaterFirst(prev, req, comment) ==
    [k \in DOMAIN prev |->
        IF prev[k].id = req.id
        THEN [prev[k] EXCEPT !.commentCount = prev[k].commentCount + 1,
                             !.comments = <<comment>> \o prev[k].comments]
        ELSE prev[k]]

\* the updater handleAddComment passes to setGallery after the response
CommentUpdater(prev, req, comment) ==
    [k \in DOMAIN prev |->
        IF prev[k].id = req.id
        THEN [prev[k] EXCEPT !.commentCount = prev[k].commentCount + 1,
                             !.comments = Append(prev[k].comments, comment)]
        ELSE prev[k]]

OptimisticInsert(g, req) ==
    CommentUpdater(g, req, [id |-> 0, presetId |-> req.presetId, author |-> req.user])

\* the gallery while the POST is awaited: handleAddComment writes nothing
\* before the response
BeforeConfirmation(g, req) == g

\* openCommentModal (the comment button of a gallery item)
OpenCommentModal(i) ==
    /\ i \in DOMAIN gallery
    /\ activePage = "home" /\ currentView = "profile"
    /\ commentingItem' = gallery[i]
    /\ UNCHANGED <<sessionVars, mutationVars, navVars, profileVars, search>>

\* closeCommentModal (the overlay or the close button)
CloseCommentModal ==
    /\ commentingItem # Null
    /\ commentingItem' = Null
    /\ UNCHANGED <<sessionVars, mutationVars, navVars, profileVars, search>>

\* handleAddComment (a predefined comment of the open modal) up to the POST
HandleAddComment(presetId) ==
    /\ commentingItem # Null
    /\ Calls < MaxMutations
    /\ LET req == CommentRequest(commentingItem, presetId) IN
       IF getCurrentUserId = None
       THEN /\ message' = MsgCommentSignIn
            /\ log' = Append(log, Event("nosession", req))
            /\ UNCHANGED <<gallery, pending, backend>>
       ELSE /\ gallery' = BeforeConfirmation(gallery, req)
            /\ pending' = Issue(pending, {req})
            /\ log' = Append(log, Event("start", req))
            /\ UNCHANGED <<message, backend>>
    /\ UNCHANGED <<sessionVars, commentingItem, navVars, profileVars, search>>

\* the POST resolves: the returned comment is appended, the modal closed
CommentConfirmed(r) ==
    /\ r \in InFlight
    /\ r.kind = "comment"
    /\ backend' = BackendApply(backend, r)
    /\ gallery' = CommentUpdater(gallery, r, ServerComment(backend, r))
    /\ commentingItem' = Null
    /\ message' = MsgCommentAdded
    /\ pending' = Settle(pending, r)
    /\ log' = Append(log, Event("ok", r))
    /\ UNCHANGED <<sessionVars, navVars, profileVars, search>>

\* the POST rejects: the catch block of handleAddComment
CommentFails(r) ==
    /\ r \in InFlight
    /\ r.kind = "comment"
    /\ message' = MsgCommentFailed
    /\ pending' = Settle(pending, r)
    /\ log' = Append(log, Event("fail", r))
    /\ UNCHANGED <<gallery, backend>>
    /\ UNCHANGED <<sessionVars, commentingItem, navVars, profileVars, search>>

(***************************************************************************)
(* Upload: handleUpload, its two awaited calls and the new gallery item    *)
(***************************************************************************)
MsgUploading    == [type |-> "info",    text |-> "uploading"]
MsgTransforming == [type |-> "info",    text |-> "transforming"]
MsgUploaded     == [type |-> "success", text |-> "uploaded"]
MsgUploadFailed == [type |-> "error",   text |-> "upload failed"]

\* the upload button is disabled while an upload runs
Uploading == \E r \in InFlight : r.kind \in {"upload", "transform"}

\* the calls of handleUpload for the n-th handler run: image_id is assigned
\* by the server, the item id is Date.now() of the moment the item is built
UploadRequest(n, visibility) ==
    [kind |-> "upload", ref |-> PostRef(Me, NumItems + n), value |-> visibility,
     id |-> <<"now", n, PostRef(Me, NumItems + n)>>, pre |-> gallery, n |-> n]

\* newGalleryItem of handleUpload
NewGalleryItem(req) ==
    [id               |-> req.id,
     originalFilename |-> req.ref,
     likeCount        |-> 0,
     isLiked          |-> FALSE,
     commentCount     |-> 0,
     comments         |-> <<>>,
     visibility       |-> req.value]

\* handleUpload with a file selected, up to the first await.  The click is
\* made in the upload view; the step stands for the click and the return to
\* the profile view, whose refetch is not part of this step.
HandleUpload(visibility) ==
    /\ ~Uploading
    /\ Calls < MaxMutations
    /\ LET req == UploadRequest(Len(log) + 1, visibility) IN
       /\ message' = MsgUploading
       /\ pending' = Issue(pending, {req})
       /\ log' = Append(log, Event("start", req))
    /\ UNCHANGED <<gallery, backend>>
    /\ UNCHANGED <<sessionVars, commentingItem, navVars, profileVars, search>>

\* POST /api/uploads resolves: the transform call is made
UploadStored(r) ==
    /\ r \in InFlight
    /\ r.kind = "upload"
    /\ message' = MsgTransforming
    /\ pending' = Issue(Settle(pending, r), {[r EXCEPT !.kind = "transform"]})
    /\ UNCHANGED <<gallery, backend, log>>
    /\ UNCHANGED <<sessionVars, commentingItem, navVars, profileVars, search>>

\* POST /api/ai/transform resolves: the server has created the post and the
\* new item is put in front of the gallery
TransformDone(r) ==
    /\ r \in InFlight
    /\ r.kind = "transform"
    /\ backend' = (r.ref :> [liked |-> FALSE, visibility |-> r.value,
                             others |-> 0, comments |-> <<>>]) @@ backend
    /\ gallery' = <<NewGalleryItem(r)>> \o gallery
    /\ message' = MsgUploaded
    /\ pending' = Settle(pending, r)
    /\ log' = Append(log, Event("ok", r))
    /\ UNCHANGED <<sessionVars, commentingItem, navVars, profileVars, search>>

\* either call rejects: the catch block of handleUpload
UploadFails(r) ==
    /\ r \in InFlight
    /\ r.kind \in {"upload", "transform"}
    /\ message' = MsgUploadFailed
    /\ pending' = Settle(pending, r)
    /\ log' = Append(log, Event("fail", r))
    /\ UNCHANGED <<gallery, backend>>
    /\ UNCHANGED <<sessionVars, commentingItem, navVars, profileVars, search>>

(***************************************************************************)
(* clearGallery: one DELETE per item, awaited together with Promise.all    *)
(***************************************************************************)
\* the success message: deletedCount is the number of items that have an
\* originalFilename, totalCount the length of the gallery
MsgCleared(deletedCount, totalCount) ==
    [type |-> "success", text |-> "gallery cleared",
     deleted |-> deletedCount, total |-> totalCount]
MsgClearFailed == [type |-> "error", text |-> "some not deleted, gallery cleared"]

\* the calls clearGallery awaits: left are the posts whose DELETE has not
\* settled, done (history) counts the ones that succeeded
ClearRequest ==
    [kind |-> "clear", left |-> {gallery[k].originalFilename : k \in DOMAIN gallery},
     done |-> 0, total |-> Len(gallery), id |-> NoId, pre |-> gallery,
     n |-> Len(log) + 1]

\* clearGallery up to the await
ClearGallery ==
    /\ activePage = "home" /\ currentView = "profile" /\ viewingProfile = Null
    /\ gallery # <<>>
    /\ Calls < MaxMutations
    /\ pending' = Issue(pending, {ClearRequest})
    /\ log' = Append(log, Event("start", ClearRequest))
    /\ UNCHANGED <<gallery, message, backend>>
    /\ UNCHANGED <<sessionVars, commentingItem, navVars, profileVars, search>>

\* one DELETE resolves; with the last one Promise.all resolves, the gallery
\* is emptied and the success message set
ClearDeleteSucceeds(r, ref) ==
    /\ r \in InFlight
    /\ r.kind = "clear"
    /\ ref \in r.left
    /\ IF r.left = {ref}
       THEN /\ gallery' = <<>>
            /\ message' = MsgCleared(r.total, r.total)
            /\ pending' = Settle(pending, r)
            /\ log' = Append(log, Event("ok", r))
       ELSE /\ pending' = Issue(Settle(pending, r),
                                {[r EXCEPT !.left = r.left \ {ref},
                                           !.done = r.done + 1]})
            /\ UNCHANGED <<gallery, message, log>>
    /\ UNCHANGED backend
    /\ UNCHANGED <<sessionVars, commentingItem, navVars, profileVars, search>>

\* one DELETE rejects: Promise.all rejects at once and the catch block runs,
\* whatever becomes of the other calls
ClearDeleteFails(r, ref) ==
    /\ r \in InFlight
    /\ r.kind = "clear"
    /\ ref \in r.left
    /\ gallery' = <<>>
    /\ message' = MsgClearFailed
    /\ pending' = Settle(pending, r)
    /\ log' = Append(log, Event("fail", r))
    /\ UNCHANGED backend
    /\ UNCHANGED <<sessionVars, commentingItem, navVars, profileVars, search>>

(***************************************************************************)
(* removeFromGallery (the delete button of an item of the own gallery)     *)
(***************************************************************************)
MsgRemoved      == [type |-> "success", text |-> "removed, deleted on the server"]
MsgRemoveFailed == [type |-> "error", text |-> "not deleted on the server, removed"]

\* gallery.find(item => item.id === id): the position found, 0 if none
FindItem(g, id) ==
    IF \E k \in DOMAIN g : g[k].id = id
    THEN CHOOSE k \in DOMAIN g :
            g[k].id = id /\ \A j \in DOMAIN g : g[j].id = id => k <= j
    ELSE 0

\* the DELETE /delete/{originalFilename} awaited by removeFromGallery
RemoveRequest(item) ==
    [kind |-> "remove", ref |-> item.originalFilename, id |-> item.id,
     pre |-> gallery, n |-> Len(log) + 1]

RemoveUpdaterFirst(prev, id) == Tail(prev)

\* setGallery(prev => prev.filter(item => item.id !== id))
RemoveUpdater(prev, id) == SelectSeq(prev, LAMBDA item : item.id # id)

\* removeFromGallery(id) up to the await; without an item of that id it
\* returns at once (History only: the call is recorded in log)
RemoveFromGallery(id) ==
    /\ activePage = "home" /\ currentView = "profile" /\ viewingProfile = Null
    /\ Calls < MaxMutations
    /\ LET k == FindItem(gallery, id) IN
       IF k = 0
       THEN /\ log' = Append(log, [ev |-> "absent", id |-> id, kind |-> "remove",
                                   pre |-> gallery, n |-> Len(log) + 1])
            /\ UNCHANGED pending
       ELSE /\ pending' = Issue(pending, {RemoveRequest(gallery[k])})
            /\ log' = Append(log, Event("start", RemoveRequest(gallery[k])))
    /\ UNCHANGED <<gallery, message, backend>>
    /\ UNCHANGED <<sessionVars, commentingItem, navVars, profileVars, search>>

\* the DELETE resolves: the item is removed and the success message set
RemoveSucceeds(r) ==
    /\ r \in InFlight
    /\ r.kind = "remove"
    /\ gallery' = RemoveUpdater(gallery, r.id)
    /\ message' = MsgRemoved
    /\ pending' = Settle(pending, r)
    /\ log' = Append(log, Event("ok", r))
    /\ UNCHANGED backend
    /\ UNCHANGED <<sessionVars, commentingItem, navVars, profileVars, search>>

\* the DELETE rejects: the catch block removes the item all the same
RemoveFails(r) ==
    /\ r \in InFlight
    /\ r.kind = "remove"
    /\ gallery' = RemoveUpdater(gallery, r.id)
    /\ message' = MsgRemoveFailed
    /\ pending' = Settle(pending, r)
    /\ log' = Append(log, Event("fail", r))
    /\ UNCHANGED backend
    /\ UNCHANGED <<sessionVars, commentingItem, navVars, profileVars, search>>

(***************************************************************************)
(* Debounced search: the effect on [searchQuery, activePage]               *)
(***************************************************************************)
\* query strings are sequences of characters
Space == " "
Queries ==
    {<<>>, <<Space>>, <<"a">>, <<Space, "a">>, <<"a", "b">>,
     <<"a", "b", Space>>, <<"a", "b", "c">>}

RECURSIVE TrimStart(_)
TrimStart(q) ==
    IF q # <<>> /\ Head(q) = Space THEN TrimStart(Tail(q)) ELSE q
RECURSIVE TrimEnd(_)
TrimEnd(q) ==
    IF q # <<>> /\ q[Len(q)] = Space THEN TrimEnd(SubSeq(q, 1, Len(q) - 1)) ELSE q
TrimStartOnly(q) == TrimStart(q)

\* String.prototype.trim
Trim(q) == TrimEnd(TrimStart(q))

ErrNoResults == "no users match"
ErrSearch    == "search failed"

\* response.data.results.map(...): the UserProfile objects stored
MapResults(results) == [k \in DOMAIN results |-> [id |-> results[k]]]

(* The search session.  searchQuery .. searchDelayRef are the state and    *)
(* (selectedUser is the result picked with handleSelectUser,               *)
(* selectedUserIsFollowing the flag of the preview's follow button)        *)
(* refs of the component; timers are the window timers not yet fired or    *)
(* cleared, requests the search calls awaited, aborted the AbortControllers*)
(* whose abort() ran, cleanup the controller of the cleanup function the   *)
(* last effect run returned, nextId the next controller / timer identity,  *)
(* rejected whether an aborted call's rejection is still to be handled in  *)
(* the same turn. History: resultsFor is the query whose response          *)
(* searchResults holds, rawOf[i] the query value effect run i started its  *)
(* timer for, issued[i] the number of search calls its timer made,         *)
(* replaced the timers cleared before they fired, cancelledNow whether the *)
(* last step cancelled a call that was in flight, followAnswer what the    *)
(* is-following call of the last handleSelectUser has returned, if it did. *)
SearchInit ==
    [searchQuery |-> <<>>, selectedUser |-> Null,
     selectedUserIsFollowing |-> FALSE, followAnswer |-> Null,
     searchResults |-> <<>>, searchLoading |-> FALSE,
     searchError |-> None, searchAbortController |-> NoId,
     searchDelayRef |-> NoId, timers |-> {}, requests |-> {}, aborted |-> {},
     cleanup |-> NoId, nextId |-> 1, rejected |-> FALSE,
     resultsFor |-> <<>>, rawOf |-> <<>>, issued |-> <<>>, replaced |-> {},
     cancelledNow |-> FALSE]

ClearTimeoutIgnored(s, id) == s

\* window.clearTimeout(id)
ClearTimeout(s, id) ==
    [s EXCEPT !.timers = {t \in s.timers : t.id # id},
              !.replaced = IF \E t \in s.timers : t.id = id
                           THEN s.replaced \cup {id} ELSE s.replaced]

AbortIgnored(s, c) == s

\* controller.abort(): the call awaited with this signal rejects as cancelled
Abort(s, c) ==
    [s EXCEPT !.aborted = s.aborted \cup {c},
              !.requests = {r \in s.requests : r.controller # c},
              !.rejected = s.rejected \/ (\E r \in s.requests : r.controller = c)]

\* if (searchAbortController.current) { abort(); current = null }
AbortCurrent(s) ==
    IF s.searchAbortController # NoId
    THEN [Abort(s, s.searchAbortController) EXCEPT !.searchAbortController = NoId]
    ELSE s

\* if (searchDelayRef.current !== undefined) { clearTimeout; = undefined }
ClearDelay(s) ==
    IF s.searchDelayRef # NoId
    THEN [ClearTimeout(s, s.searchDelayRef) EXCEPT !.searchDelayRef = NoId]
    ELSE s

\* the cleanup function returned by the previous run of the effect, if any
SearchCleanup(s) ==
    IF s.cleanup = NoId THEN s
    ELSE LET a == Abort(s, s.cleanup)
             b == IF a.searchAbortController = s.cleanup
                  THEN [a EXCEPT !.searchAbortController = NoId] ELSE a
         IN  [ClearDelay(b) EXCEPT !.cleanup = NoId]

TooShortNever(trimmedQuery) == Len(trimmedQuery) > 0 /\ Len(trimmedQuery) < 1

\* trimmedQuery.length > 0 && trimmedQuery.length < 2
TooShort(trimmedQuery) == Len(trimmedQuery) > 0 /\ Len(trimmedQuery) < 2

\* the body of the effect, run with the current query and page
SearchEffect(s, page) ==
    LET trimmedQuery == Trim(s.searchQuery) IN
    IF page # "search"
    THEN ClearDelay(AbortCurrent(
             [s EXCEPT !.searchLoading = FALSE, !.searchResults = <<>>,
                       !.resultsFor = <<>>, !.searchError = None]))
    ELSE LET c == ClearDelay(s) IN
         IF TooShort(trimmedQuery)
         THEN [AbortCurrent(c) EXCEPT !.searchLoading = FALSE,
                                      !.searchResults = <<>>,
                                      !.resultsFor = <<>>,
                                      !.searchError = None]
         ELSE [c EXCEPT !.searchLoading = TRUE,
                        !.searchError = None,
                        !.searchAbortController = Id(c.nextId),
                        !.searchDelayRef = Id(c.nextId),
                        !.timers = c.timers \cup
                            {[id |-> Id(c.nextId), controller |-> Id(c.nextId),
                              q |-> trimmedQuery]},
                        !.cleanup = Id(c.nextId),
                        !.rawOf = Append(c.rawOf, c.searchQuery),
                        !.issued = Append(c.issued, 0),
                        !.nextId = c.nextId + 1]

\* the continuation of a call rejected by abort(): axios.isCancel(error) is
\* true, so only the finally block runs
CancelledContinuation(s) ==
    IF s.rejected
    THEN [s EXCEPT !.searchLoading = FALSE, !.rejected = FALSE,
                   !.cancelledNow = TRUE]
    ELSE [s EXCEPT !.cancelledNow = FALSE]

\* one commit of a changed searchQuery / activePage: cleanup, effect body,
\* then the microtasks of the same turn
RunSearchEffect(s, page) ==
    CancelledContinuation(SearchEffect(SearchCleanup(s), page))

\* the effect on [activePage]: away from the search page the query is reset
\* (the search effect then runs once more for the changed query)
PageEffect(s, page) ==
    LET selected == IF page # "search" THEN Null ELSE s.selectedUser IN
    IF page # "search" /\ s.searchQuery # <<>>
    THEN LET first == RunSearchEffect(s, page)
             second == RunSearchEffect([first EXCEPT !.searchQuery = <<>>], page)
         IN  [second EXCEPT !.cancelledNow = first.cancelledNow,
                            !.selectedUser = selected]
    ELSE [RunSearchEffect(s, page) EXCEPT !.selectedUser = selected]

GalleryRequestsOwn(page, view, vp, uid) ==
    IF uid # None
    THEN {[kind |-> "gallery", target |-> uid, user |-> currentUser]}
    ELSE {}

\* fetchBackendGallery's request, when the gallery effect issues one
GalleryRequests(page, view, vp, uid) ==
    LET targetUserId == IF vp # Null THEN vp.id ELSE uid IN
    IF (page = "home" \/ view = "profile") /\ targetUserId # None
    THEN {[kind |-> "gallery", target |-> targetUserId, user |-> currentUser]}
    ELSE {}

\* handleSearchInput
HandleSearchInput(q) ==
    /\ activePage = "search"
    /\ q # search.searchQuery
    /\ search.nextId <= MaxSearchEffects
    /\ search' = RunSearchEffect([search EXCEPT !.searchQuery = q], activePage)
    /\ UNCHANGED <<sessionVars, commentingItem, mutationVars, navVars,
                   profileVars>>

ProfileResetOnLeave(vp, page) == IF page # "home" THEN Null ELSE vp

\* what a change of the page does to viewingProfile: the effects on
\* activePage reset the search state only
ProfileAfterPageChange(vp, page) == vp

\* History only: the is-following calls of earlier handleSelectUser calls
\* are marked as not being the one of the last call
Superseded(p) ==
    LET old(r) == IF r.kind = "selectedIsFollowing"
                  THEN [r EXCEPT !.last = FALSE] ELSE r
        S == {old(r) : r \in BagToSet(p)}
    IN  [x \in S |-> CopiesIn(x, p) +
                     (IF x.kind = "selectedIsFollowing"
                      THEN CopiesIn([x EXCEPT !.last = TRUE], p) ELSE 0)]

\* the is-following call of handleSelectUser(user), when it makes one
SelectRequests(user, uid) ==
    IF uid # None
    THEN {[kind |-> "selectedIsFollowing", target |-> user.id, last |-> TRUE]}
    ELSE {}

\* handleSelectUser (a click on a search result, which are rendered when
\* loading is false and no error is set)
HandleSelectUser(k) ==
    /\ activePage = "search"
    /\ ~search.searchLoading /\ search.searchError = None
    /\ k \in DOMAIN search.searchResults
    /\ search.selectedUser # search.searchResults[k]
    /\ \A r \in InFlight : r.kind = "selectedIsFollowing" => r.last
    /\ LET user == search.searchResults[k]
           reqs == SelectRequests(user, getCurrentUserId)
       IN  /\ search' = [search EXCEPT
                  !.selectedUser = user,
                  !.selectedUserIsFollowing =
                      IF reqs = {} THEN FALSE ELSE @,
                  !.followAnswer = Null,
                  !.cancelledNow = FALSE]
           /\ pending' = Issue(Superseded(pending), reqs)
    /\ UNCHANGED <<sessionVars, commentingItem, gallery, message, backend, log,
                   navVars, profileVars>>

\* clearSelectedUser (the close button of the preview)
ClearSelectedUser ==
    /\ activePage = "search"
    /\ search.selectedUser # Null
    /\ search' = [search EXCEPT !.selectedUser = Null,
                                !.selectedUserIsFollowing = FALSE,
                                !.cancelledNow = FALSE]
    /\ UNCHANGED <<sessionVars, commentingItem, mutationVars, navVars,
                   profileVars>>

\* the is-following call of handleSelectUser resolves / rejects
SelectedFollowFetched(r, is_following) ==
    /\ r \in InFlight /\ r.kind = "selectedIsFollowing"
    /\ search' = [search EXCEPT
           !.selectedUserIsFollowing = is_following,
           !.followAnswer = IF r.last THEN [value |-> is_following] ELSE @,
           !.cancelledNow = FALSE]
    /\ pending' = Settle(pending, r)
    /\ UNCHANGED <<sessionVars, commentingItem, gallery, message, backend, log,
                   navVars, profileVars>>

SelectedFollowFails(r) ==
    /\ r \in InFlight /\ r.kind = "selectedIsFollowing"
    /\ search' = [search EXCEPT
           !.selectedUserIsFollowing = FALSE,
           !.followAnswer = IF r.last THEN [value |-> FALSE] ELSE @,
           !.cancelledNow = FALSE]
    /\ pending' = Settle(pending, r)
    /\ UNCHANGED <<sessionVars, commentingItem, gallery, message, backend, log,
                   navVars, profileVars>>

\* the primary-nav buttons: setActivePage
SetActivePage(page) ==
    /\ page # activePage
    /\ search.nextId <= MaxSearchEffects
    /\ BagCardinality(pending) < MaxPending
    /\ activePage' = page
    /\ search' = PageEffect(search, page)
    /\ viewingProfile' = ProfileAfterPageChange(viewingProfile, page)
    /\ pending' = Issue(pending, GalleryRequests(page, currentView, viewingProfile,
                                                 getCurrentUserId))
    /\ UNCHANGED <<sessionVars, commentingItem, gallery, message, backend,
                   log, currentView,
                   viewingProfileStats, isFollowing, userFollowers,
                   userFollowing, profileClick>>

\* the debounce timer fires: the search call is made with the effect's
\* trimmed query and signal
TimerFires(t) ==
    /\ t \in search.timers
    /\ search' =
         LET fired == [search EXCEPT !.timers = search.timers \ {t},
                                     !.cancelledNow = FALSE,
                                     !.issued[t.id[1]] = search.issued[t.id[1]] + 1]
         IN  IF t.controller \in search.aborted
             THEN [fired EXCEPT !.searchLoading = FALSE]
             ELSE [fired EXCEPT !.requests = fired.requests \cup
                                   {[controller |-> t.controller, q |-> t.q]}]
    /\ UNCHANGED <<sessionVars, commentingItem, mutationVars, navVars,
                   profileVars>>

ResultLists == {<<>>, <<"u2">>, <<"u2", "u3">>}

ResponseErrorGeneric(count) == IF count = 0 THEN ErrSearch ELSE None

\* the error set for a response: response.data.count === 0 ? "no users
\* match" : null
ResponseError(count) == IF count = 0 THEN ErrNoResults ELSE None

\* the search call resolves with response.data = {count, results}
SearchResponds(r, results) ==
    /\ r \in search.requests
    /\ search' = [search EXCEPT
                     !.requests = search.requests \ {r},
                     !.cancelledNow = FALSE,
                     !.searchResults = MapResults(results),
                     !.resultsFor = <<r.q>>,
                     !.searchError = ResponseError(Len(results)),
                     !.searchLoading = FALSE]
    /\ UNCHANGED <<sessionVars, commentingItem, mutationVars, navVars,
                   profileVars>>

\* the search call rejects with a transport error
SearchFails(r) ==
    /\ r \in search.requests
    /\ search' = [search EXCEPT
                     !.requests = search.requests \ {r},
                     !.cancelledNow = FALSE,
                     !.searchError = ErrSearch,
                     !.searchLoading = FALSE]
    /\ UNCHANGED <<sessionVars, commentingItem, mutationVars, navVars,
                   profileVars>>

\* handleUpdateBio, started from the bio dialog of the own profile
HandleUpdateBio ==
    /\ activePage = "home" /\ currentView = "profile" /\ viewingProfile = Null
    /\ getCurrentUserId # None
    /\ BagCardinality(pending) < MaxPending
    /\ pending' = Issue(pending, {[kind |-> "bio"]})
    /\ UNCHANGED <<sessionVars, commentingItem, gallery, message, backend,
                   log, navVars,
                   profileVars, search>>

\* handleUpdateBio after the call resolved: the search results and the query
\* are cleared (the search effect runs if the query changed)
BioUpdated(r) ==
    /\ r \in InFlight
    /\ r.kind = "bio"
    /\ search.nextId <= MaxSearchEffects
    /\ pending' = Settle(pending, r)
    /\ message' = MsgBioUpdated
    /\ search' =
         LET cleared == [search EXCEPT !.searchResults = <<>>, !.resultsFor = <<>>,
                                       !.cancelledNow = FALSE]
         IN  IF search.searchQuery # <<>>
             THEN RunSearchEffect([cleared EXCEPT !.searchQuery = <<>>], activePage)
             ELSE cleared
    /\ UNCHANGED <<sessionVars, commentingItem, gallery, backend, log,
                   navVars, profileVars>>

BioUpdateFails(r) ==
    /\ r \in InFlight
    /\ r.kind = "bio"
    /\ pending' = Settle(pending, r)
    /\ message' = MsgBioFailed
    /\ UNCHANGED <<sessionVars, commentingItem, gallery, backend, log,
                   navVars, profileVars, search>>

\* fetchBackendGallery's call settles
GalleryFetched(r) ==
    /\ r \in InFlight
    /\ r.kind = "gallery"
    /\ gallery' = FetchedGallery(r.target, backend,
                                 IF r.user = None THEN None ELSE storedUserId)
    /\ pending' = Settle(pending, r)
    /\ UNCHANGED <<sessionVars, commentingItem, message, backend, log,
                   navVars, profileVars, search>>

GalleryFetchFails(r) ==
    /\ r \in InFlight
    /\ r.kind = "gallery"
    /\ pending' = Settle(pending, r)
    /\ UNCHANGED <<sessionVars, commentingItem, gallery, message, backend,
                   log, navVars,
                   profileVars, search>>

(***************************************************************************)
(* Profile navigation                                                      *)
(***************************************************************************)
MsgNoUserId     == [type |-> "error",   text |-> "no user id"]
MsgFollowed     == [type |-> "success", text |-> "followed"]
MsgFollowFailed == [type |-> "error",   text |-> "follow failed"]
MsgUnfollowed     == [type |-> "success", text |-> "unfollowed"]
MsgUnfollowFailed == [type |-> "error",   text |-> "unfollow failed"]

\* a UserProfile object, as found in search results and follower lists
Profile(u) == [id |-> u]

\* response.data of GET /users/{id}/follow-stats (of: whose counts they are)
FollowCounts == {0, 1}
StatsData(u) ==
    {[followers |-> f, following |-> f, of |-> u] : f \in FollowCounts}
ZeroStats == [followers |-> 0, following |-> 0]

\* the effect on [viewingProfile, currentUser]: the calls it makes for a
\* viewed profile
FollowEffectRequests(vp, uid) ==
    IF vp # Null
    THEN {[kind |-> "followStats", target |-> vp.id]} \cup
         (IF uid # None THEN {[kind |-> "isFollowing", target |-> vp.id]} ELSE {})
    ELSE {}

\* the effect fetching the own follow stats
OwnStatsRequests(vp, user, uid) ==
    IF vp = Null /\ user # None /\ uid # None
    THEN {[kind |-> "ownStats", target |-> uid]}
    ELSE {}

\* the effects that run after a commit which set viewingProfile to vp, the
\* page to page and the view to view: the calls they make
EffectRequests(vp, page, view) ==
    LET profileChanged == ~(viewingProfile = Null /\ vp = Null)
        galleryDeps == profileChanged \/ page # activePage \/ view # currentView
    IN  (IF profileChanged
         THEN FollowEffectRequests(vp, getCurrentUserId)
                \cup OwnStatsRequests(vp, currentUser, getCurrentUserId)
         ELSE {})
        \cup (IF galleryDeps
              THEN GalleryRequests(page, view, vp, getCurrentUserId)
              ELSE {})

ViewProfileAlwaysOther(user, uid) == user

\* handleViewProfile: the profile context chosen for the clicked user
ResolveProfile(user, uid) == IF user.id = uid THEN Null ELSE user

\* handleViewProfile
HandleViewProfile(user) ==
    LET vp == ResolveProfile(user, getCurrentUserId) IN
    /\ BagCardinality(pending) < MaxPending
    /\ search.nextId <= MaxSearchEffects
    /\ viewingProfile' = vp
    /\ viewingProfileStats' = IF vp = Null THEN Null ELSE viewingProfileStats
    /\ isFollowing' = IF vp = Null THEN FALSE ELSE isFollowing
    /\ profileClick' = user
    /\ activePage' = "home"
    /\ currentView' = "profile"
    /\ search' = [(IF activePage # "home" THEN PageEffect(search, "home")
                   ELSE search) EXCEPT !.selectedUserIsFollowing = FALSE]
    /\ pending' = Issue(pending, EffectRequests(vp, "home", "profile"))
    /\ UNCHANGED <<sessionVars, commentingItem, gallery, message, backend, log,
                   userFollowers, userFollowing>>

\* handleBackToMyProfile (the button of a viewed profile)
HandleBackToMyProfile ==
    /\ activePage = "home" /\ currentView = "profile" /\ viewingProfile # Null
    /\ BagCardinality(pending) < MaxPending
    /\ viewingProfile' = Null
    /\ viewingProfileStats' = Null
    /\ isFollowing' = FALSE
    /\ profileClick' = Null
    /\ pending' = Issue(pending, EffectRequests(Null, activePage, currentView))
    /\ UNCHANGED <<sessionVars, commentingItem, gallery, message, backend,
                   log, navVars,
                   userFollowers, userFollowing, search>>

\* the studio navigation: setCurrentView
SetCurrentView(view) ==
    /\ activePage = "home" /\ viewingProfile = Null
    /\ view # currentView
    /\ BagCardinality(pending) < MaxPending
    /\ currentView' = view
    /\ pending' = Issue(pending, EffectRequests(viewingProfile, activePage, view))
    /\ UNCHANGED <<sessionVars, commentingItem, gallery, message, backend,
                   log, activePage,
                   profileVars, search>>

\* GET follow-stats of the viewed profile resolves / rejects
FollowStatsFetched(r, data) ==
    /\ r \in InFlight /\ r.kind = "followStats"
    /\ data \in StatsData(r.target)
    /\ viewingProfileStats' = data
    /\ pending' = Settle(pending, r)
    /\ UNCHANGED <<sessionVars, commentingItem, gallery, message, backend,
                   log, navVars,
                   profileClick, viewingProfile, isFollowing, userFollowers, userFollowing, search>>

FollowStatsFails(r) ==
    /\ r \in InFlight /\ r.kind = "followStats"
    /\ viewingProfileStats' = ZeroStats
    /\ pending' = Settle(pending, r)
    /\ UNCHANGED <<sessionVars, commentingItem, gallery, message, backend,
                   log, navVars,
                   profileClick, viewingProfile, isFollowing, userFollowers, userFollowing, search>>

\* GET is-following resolves / rejects
IsFollowingFetched(r, is_following) ==
    /\ r \in InFlight /\ r.kind = "isFollowing"
    /\ isFollowing' = is_following
    /\ pending' = Settle(pending, r)
    /\ UNCHANGED <<sessionVars, commentingItem, gallery, message, backend,
                   log, navVars,
                   profileClick, viewingProfile, viewingProfileStats, userFollowers,
                   userFollowing, search>>

IsFollowingFails(r) ==
    /\ r \in InFlight /\ r.kind = "isFollowing"
    /\ isFollowing' = FALSE
    /\ pending' = Settle(pending, r)
    /\ UNCHANGED <<sessionVars, commentingItem, gallery, message, backend,
                   log, navVars,
                   profileClick, viewingProfile, viewingProfileStats, userFollowers,
                   userFollowing, search>>

\* GET follow-stats of the own user resolves / rejects
OwnStatsFetched(r, data) ==
    /\ r \in InFlight /\ r.kind = "ownStats"
    /\ data \in StatsData(r.target)
    /\ userFollowers' = data.followers
    /\ userFollowing' = data.following
    /\ pending' = Settle(pending, r)
    /\ UNCHANGED <<sessionVars, commentingItem, gallery, message, backend,
                   log, navVars,
                   profileClick, viewingProfile, viewingProfileStats, isFollowing, search>>

OwnStatsFails(r) ==
    /\ r \in InFlight /\ r.kind = "ownStats"
    /\ userFollowers' = 0
    /\ userFollowing' = 0
    /\ pending' = Settle(pending, r)
    /\ UNCHANGED <<sessionVars, commentingItem, gallery, message, backend,
                   log, navVars,
                   profileClick, viewingProfile, viewingProfileStats, isFollowing, search>>

\* handleFollow / handleUnfollow (the buttons of a viewed profile): without a
\* user id an error message, else the POST / DELETE call is made; vp is the
\* viewingProfile the handler's render saw
HandleFollow(targetUserId) ==
    /\ activePage = "home" /\ currentView = "profile"
    /\ viewingProfile # Null /\ targetUserId = viewingProfile.id
    /\ ~isFollowing
    /\ BagCardinality(pending) < MaxPending
    /\ IF getCurrentUserId = None
       THEN message' = MsgNoUserId /\ UNCHANGED pending
       ELSE /\ pending' = Issue(pending, {[kind |-> "follow", target |-> targetUserId,
                                           vp |-> viewingProfile]})
            /\ UNCHANGED message
    /\ UNCHANGED <<sessionVars, commentingItem, gallery, backend, log,
                   navVars, profileVars, search>>

HandleUnfollow(targetUserId) ==
    /\ activePage = "home" /\ currentView = "profile"
    /\ viewingProfile # Null /\ targetUserId = viewingProfile.id
    /\ isFollowing
    /\ BagCardinality(pending) < MaxPending
    /\ IF getCurrentUserId = None
       THEN message' = MsgNoUserId /\ UNCHANGED pending
       ELSE /\ pending' = Issue(pending, {[kind |-> "unfollow", target |-> targetUserId,
                                           vp |-> viewingProfile]})
            /\ UNCHANGED message
    /\ UNCHANGED <<sessionVars, commentingItem, gallery, backend, log,
                   navVars, profileVars, search>>

\* the POST / DELETE follow call resolves: the flag and the message are set
\* and the follow stats of the handler's viewingProfile are requested again
FollowSettled(r) ==
    /\ r \in InFlight /\ r.kind \in {"follow", "unfollow"}
    /\ isFollowing' = (r.kind = "follow")
    /\ message' = IF r.kind = "follow" THEN MsgFollowed ELSE MsgUnfollowed
    /\ pending' = Issue(Settle(pending, r),
                        IF r.vp # Null
                        THEN {[kind |-> "statsRefresh", target |-> r.vp.id, of |-> r.kind]}
                        ELSE {})
    /\ UNCHANGED <<sessionVars, commentingItem, gallery, backend, log,
                   navVars, profileClick, viewingProfile,
                   viewingProfileStats, userFollowers, userFollowing, search>>

\* a call awaited by handleFollow / handleUnfollow rejects: the catch block
FollowFails(r) ==
    /\ r \in InFlight /\ r.kind \in {"follow", "unfollow"}
    /\ message' = IF r.kind = "follow" THEN MsgFollowFailed ELSE MsgUnfollowFailed
    /\ pending' = Settle(pending, r)
    /\ UNCHANGED <<sessionVars, commentingItem, gallery, backend, log,
                   navVars, profileVars, search>>

StatsRefreshed(r, data) ==
    /\ r \in InFlight /\ r.kind = "statsRefresh"
    /\ data \in StatsData(r.target)
    /\ viewingProfileStats' = data
    /\ pending' = Settle(pending, r)
    /\ UNCHANGED <<sessionVars, commentingItem, gallery, message, backend,
                   log, navVars,
                   profileClick, viewingProfile, isFollowing, userFollowers, userFollowing, search>>

StatsRefreshFails(r) ==
    /\ r \in InFlight /\ r.kind = "statsRefresh"
    /\ message' = IF r.of = "follow" THEN MsgFollowFailed ELSE MsgUnfollowFailed
    /\ pending' = Settle(pending, r)
    /\ UNCHANGED <<sessionVars, commentingItem, gallery, backend, log,
                   navVars, profileVars, search>>

(***************************************************************************)
(* Authentication: the render gate, the bootstrap effect, the callbacks of *)
(* the Login and Register components, handleLogout                         *)
(***************************************************************************)
\* the value handleLoginSuccess stores under "hayai-auth"
Marker(username) == [username |-> username]
\* a stored marker that parses but has no username
MarkerNoUsername == [timestamp |-> 0]

\* what stays of a session entered through the Login component: the marker,
\* no tokens (Login stores the user id only)
LoggedIn(username) ==
    /\ isAuthenticated = TRUE
    /\ showRegister = FALSE
    /\ storedAuth = Marker(username)
    /\ storedToken = None
    /\ storedRefreshToken = None

\* the render gate of App: which screen the component returns
Screen ==
    IF ~isAuthenticated
    THEN IF showRegister THEN "register" ELSE "login"
    ELSE "main"

\* the request interceptor of api: the bearer credential attached to a call
Bearer == storedToken

\* parsed?.username
MarkerUsername(marker) ==
    IF "username" \in DOMAIN marker THEN marker.username ELSE None

BootstrapAnyMarker(marker) == marker # Null

\* the bootstrap effect: storedAuth is present and parsed?.username is set
BootstrapAuthenticates(marker) ==
    marker # Null /\ "username" \in DOMAIN marker

\* the calls made by the effects on [viewingProfile, currentUser, ...] after
\* a commit that changed currentUser to user, on the home page
SessionEffectRequests(user, uid) ==
    {[r EXCEPT !.user = user] :
        r \in GalleryRequests("home", currentView, viewingProfile, uid)}
      \cup FollowEffectRequests(viewingProfile, uid)
      \cup OwnStatsRequests(viewingProfile, user, uid)

SearchKeptOnSessionChange(s) == s

\* the search state after handleLoginSuccess / handleLogout: query, results
\* and error are reset by the handler, the search effect runs if the query
\* or the page changed
SearchAfterSessionChange(s) ==
    LET reset == [s EXCEPT !.searchQuery = <<>>, !.selectedUser = Null,
                           !.searchResults = <<>>,
                           !.resultsFor = <<>>, !.searchError = None,
                           !.cancelledNow = FALSE]
    IN  IF s.searchQuery # <<>> \/ activePage # "home"
        THEN RunSearchEffect(reset, "home")
        ELSE reset

\* handleLoginSuccess, called by Login / Register after they stored uid as
\* "userId" (the fetch of currentUserProfile is not part of the model)
HandleLoginSuccess(username, uid) ==
    /\ isAuthenticated' = TRUE
    /\ currentUser' = username
    /\ storedAuth' = Marker(username)
    /\ activePage' = "home"
    /\ search' = SearchAfterSessionChange(search)
    /\ pending' = Issue(pending, SessionEffectRequests(username, uid))
    /\ UNCHANGED <<showRegister, commentingItem, gallery, message, backend, log,
                   currentView, profileVars>>

\* Login: handleSubmit after POST /login resolved with success
LoginSucceeds(username) ==
    /\ Screen = "login"
    /\ BagCardinality(pending) < MaxPending
    /\ storedUserId' = username
    /\ UNCHANGED <<storedToken, storedRefreshToken>>
    /\ HandleLoginSuccess(username, username)

\* Register: handleSubmit after POST /api/auth/register resolved with success
RegisterSucceeds(username) ==
    /\ Screen = "register"
    /\ BagCardinality(pending) < MaxPending
    /\ storedUserId' = username
    /\ storedToken' = username
    /\ storedRefreshToken' = username
    /\ HandleLoginSuccess(username, username)

\* onRegisterClick of Login / onBackToLogin of Register
SetShowRegister(show) ==
    /\ ~isAuthenticated
    /\ show # showRegister
    /\ showRegister' = show
    /\ UNCHANGED <<currentUser, storedUserId, isAuthenticated, storedAuth,
                   storedToken, storedRefreshToken>>
    /\ UNCHANGED <<commentingItem, mutationVars, navVars, profileVars, search>>

LogoutClearsAll(token) == None

\* what handleLogout leaves of a token in client storage: it removes
\* "hayai-auth" and "userId" only
TokenAfterLogout(token) == token

\* handleLogout (the logout button of the main application)
HandleLogout ==
    /\ Screen = "main"
    /\ BagCardinality(pending) < MaxPending
    /\ isAuthenticated' = FALSE
    /\ currentUser' = None
    /\ activePage' = "home"
    /\ search' = SearchAfterSessionChange(search)
    /\ storedAuth' = Null
    /\ storedUserId' = None
    /\ storedToken' = TokenAfterLogout(storedToken)
    /\ storedRefreshToken' = TokenAfterLogout(storedRefreshToken)
    /\ pending' = Issue(pending, SessionEffectRequests(None, None))
    /\ UNCHANGED <<showRegister, commentingItem, gallery, message, backend, log,
                   currentView, profileVars>>

\* the page is loaded again: every state and ref of the component starts
\* anew, the awaited calls of the old page are gone, client storage stays;
\* the mount effects run, among them the bootstrap effect
Reload ==
    LET auth == BootstrapAuthenticates(storedAuth)
        user == IF auth THEN MarkerUsername(storedAuth) ELSE None
        uid  == IF auth THEN storedUserId ELSE None
    IN  /\ isAuthenticated' = auth
        /\ currentUser' = user
        /\ showRegister' = FALSE
        /\ activePage' = "home"
        /\ currentView' = "upload"
        /\ gallery' = <<>>
        /\ message' = NoMessage
        /\ commentingItem' = Null
        /\ viewingProfile' = Null
        /\ viewingProfileStats' = Null
        /\ isFollowing' = FALSE
        /\ userFollowers' = 0
        /\ userFollowing' = 0
        /\ profileClick' = Null
        /\ search' = SearchInit
        /\ pending' = SetToBag(
              {[r EXCEPT !.user = user] : r \in GalleryRequests("home", "upload", Null, uid)}
                \cup OwnStatsRequests(Null, user, uid))
        /\ UNCHANGED <<storedUserId, storedAuth, storedToken, storedRefreshToken,
                       backend, log>>

(***************************************************************************)
(* Specification of the gallery mutations: a signed-in user (with or       *)
(* without a stored user id) looking at the own gallery as fetched.        *)
(***************************************************************************)
DefaultPost ==
    [liked |-> FALSE, visibility |-> "public", others |-> OtherLikes,
     comments |-> <<>>]
\* the posts of the session user liked or not, all public or all private;
\* those of the others as created
BackendStates ==
    {[p \in Posts |-> IF p \in DOMAIN liked
                      THEN [DefaultPost EXCEPT !.liked = liked[p], !.visibility = v]
                      ELSE DefaultPost] :
        liked \in [{PostRef(Me, i) : i \in ItemIndex} -> BOOLEAN], v \in Visibilities}
DefaultBackend == [p \in Posts |-> DefaultPost]

InitMutation ==
    /\ currentUser = Me
    /\ LoggedIn(Me)
    /\ storedUserId \in {Me, None}
    /\ backend \in BackendStates
    /\ gallery = FetchedGallery(Me, backend, Me)
    /\ message = NoMessage
    /\ pending = EmptyBag
    /\ log = <<>>
    /\ activePage = "home"
    /\ currentView = "profile"
    /\ viewingProfile = Null
    /\ viewingProfileStats = Null
    /\ isFollowing = FALSE
    /\ userFollowers = 0
    /\ userFollowing = 0
    /\ profileClick = Null
    /\ commentingItem = Null
    /\ search = SearchInit

NextMutation ==
    \/ \E i \in ItemIndex : HandleToggleLike(i)
    \/ \E i \in ItemIndex : HandleToggleVisibility(i)
    \/ \E r \in InFlight : LikeSucceeds(r)
    \/ \E r \in InFlight : LikeFails(r)
    \/ \E r \in InFlight : VisibilitySucceeds(r)
    \/ \E r \in InFlight : VisibilityFails(r)

SpecMutation == InitMutation /\ [][NextMutation]_vars

(***************************************************************************)
(* Properties of the gallery mutations                                     *)
(***************************************************************************)
Last == log[Len(log)]
StartOf(e) == log[e.n]
IndexOf(g, id) == CHOOSE k \in DOMAIN g : g[k].id = id

\* the value an item shows right after its own step 1
PostValue(e) ==
    LET old == e.pre[IndexOf(e.pre, e.id)]
    IN  IF e.kind = "visibility"
        THEN [old EXCEPT !.visibility = IF old.visibility = "public"
                                        THEN "private" ELSE "public"]
        ELSE [old EXCEPT !.isLiked = ~old.isLiked,
                         !.likeCount = IF old.isLiked THEN old.likeCount - 1
                                                      ELSE old.likeCount + 1]
PreValue(e) == e.pre[IndexOf(e.pre, e.id)]

\* no gallery write by another handler between the start of e's mutation
\* and its completion e
Undisturbed(e) == \A j \in (e.n + 1)..(Len(log) - 1) : log[j].ev = "ok"

\* C1: two mutations in flight together on distinct items a and b, a's call
\* fails and b's succeeds: once both have completed b shows its
\* post-mutation value and a its pre-mutation value.
C1_RollbackKeepsOtherItem ==
    \A x, y \in 3..4 :
        ( /\ Len(log) = 4 /\ pending = EmptyBag
          /\ log[1].ev = "start" /\ log[2].ev = "start"
          /\ x # y
          /\ log[x].ev = "fail" /\ log[y].ev = "ok"
          /\ log[x].id # log[y].id )
        => /\ gallery[IndexOf(gallery, log[y].id)] = PostValue(log[y])
           /\ gallery[IndexOf(gallery, log[x].id)] = PreValue(log[x])

\* C2: right after step 1 of a like or visibility toggle the item shows the
\* flipped value (like: isLiked negated, likeCount +1 or -1; visibility:
\* public <-> private) and every other item is unchanged; when the call then
\* fails with no other gallery change in between, the gallery is the one
\* from before the action and an error message is set.
C2_OptimisticThenRollback ==
    Len(log) > 0 =>
        /\ Last.ev = "start" =>
              \A k \in DOMAIN gallery :
                  gallery[k] = IF Last.pre[k].id = Last.id
                               THEN PostValue(Last) ELSE Last.pre[k]
        /\ (Last.ev = "fail" /\ Undisturbed(Last)) =>
              /\ gallery = Last.pre
              /\ message.type = "error"

C2_Witness ==
    /\ Len(log) > 2 /\ Last.ev = "fail" /\ Undisturbed(Last)
    /\ log[Len(log) - 1].ev = "ok"
    /\ gallery = Last.pre /\ gallery # log[1].pre /\ message.type = "error"

\* C3: once no mutation is in flight, every item's visible isLiked and
\* visibility are the values the backend holds for it.
C3_Convergence ==
    pending = EmptyBag =>
        \A k \in DOMAIN gallery :
            /\ gallery[k].isLiked = backend[gallery[k].originalFilename].liked
            /\ gallery[k].visibility = backend[gallery[k].originalFilename].visibility

\* C16: a like or visibility toggle called without a session user id sets
\* an error message, leaves the gallery as it was and makes no call.
C16_NoSessionFailsFast ==
    (Len(log) > 0 /\ Last.ev = "nosession") =>
        /\ message.type = "error"
        /\ gallery = Last.pre
        /\ pending = EmptyBag

\* C17: the call a like toggle makes is DELETE when the item was liked
\* before and POST when it was not, which is the flip just written locally;
\* the call of a visibility toggle carries the value just written locally;
\* both name the post by originalFilename, not by the gallery id.
C17_CallMatchesLocalFlip ==
    [][\A i \in DOMAIN gallery :
          getCurrentUserId # None =>
              LET new == BagToSet(pending' (-) pending) IN
              /\ HandleToggleLike(i) =>
                    \E r \in new :
                        /\ new = {r}
                        /\ r.kind = IF gallery[i].isLiked THEN "unlike" ELSE "like"
                        /\ gallery'[i].isLiked = (r.kind = "like")
                        /\ r.ref = gallery[i].originalFilename
                        /\ r.ref # gallery[i].id
              /\ HandleToggleVisibility(i) =>
                    \E r \in new :
                        /\ new = {r}
                        /\ r.kind = "visibility"
                        /\ r.value = gallery'[i].visibility
                        /\ r.ref = gallery[i].originalFilename
                        /\ r.ref # gallery[i].id]_vars

\* an item that was liked has just been toggled: DELETE is in flight and
\* the item shows not liked
C17_Witness ==
    /\ Len(log) > 0 /\ Last.ev = "start"
    /\ \E r \in InFlight :
          /\ r.n = Len(log) /\ r.kind = "unlike"
          /\ PreValue(Last).isLiked
          /\ ~gallery[IndexOf(gallery, r.id)].isLiked

(***************************************************************************)
(* Specification of the search page: a signed-in user switching between    *)
(* the home and the search page and typing queries.                        *)
(***************************************************************************)
InitSearch ==
    /\ currentUser = Me
    /\ LoggedIn(Me)
    /\ storedUserId = Me
    /\ backend = DefaultBackend
    /\ gallery = FetchedGallery(Me, backend, Me)
    /\ message = NoMessage
    /\ pending = EmptyBag
    /\ log = <<>>
    /\ activePage = "home"
    /\ currentView \in {"upload", "profile"}
    /\ viewingProfile = Null
    /\ viewingProfileStats = Null
    /\ isFollowing = FALSE
    /\ userFollowers = 0
    /\ userFollowing = 0
    /\ profileClick = Null
    /\ commentingItem = Null
    /\ search = SearchInit

NextSearch ==
    \/ \E q \in Queries : HandleSearchInput(q)
    \/ \E page \in {"home", "search"} : SetActivePage(page)
    \/ \E t \in search.timers : TimerFires(t)
    \/ \E r \in search.requests, results \in ResultLists : SearchResponds(r, results)
    \/ \E r \in search.requests : SearchFails(r)
    \/ \E r \in InFlight : GalleryFetched(r)
    \/ \E r \in InFlight : GalleryFetchFails(r)
    \/ HandleUpdateBio
    \/ \E r \in InFlight : BioUpdated(r)
    \/ \E r \in InFlight : BioUpdateFails(r)

SpecSearch == InitSearch /\ [][NextSearch]_vars

(***************************************************************************)
(* Properties of the search page                                           *)
(***************************************************************************)
Quiescent == search.timers = {} /\ search.requests = {}
CurrentQuery == Trim(search.searchQuery)

\* C4 as stated: once no timer and no request is pending, the stored
\* results (when there are any) are the ones returned for the last settled
\* trimmed query.
C4_ResultsOfLastSettledQuery ==
    (activePage = "search" /\ Quiescent /\ ~TooShort(CurrentQuery)
       /\ search.searchResults # <<>>)
    => search.resultsFor = <<CurrentQuery>>

\* C4 amended: a call in flight is always the one for the current trimmed
\* query, so no response of a superseded call is ever stored; and once no
\* timer and no request is pending, stored results that are not empty are
\* the ones returned for the current trimmed query unless the transport
\* error message is set.
C4_NoStaleResponse ==
    /\ \A r \in search.requests :
          /\ activePage = "search"
          /\ r.q = CurrentQuery
          /\ r.controller \notin search.aborted
    /\ (activePage = "search" /\ Quiescent /\ ~TooShort(CurrentQuery)
          /\ search.searchResults # <<>> /\ search.searchError # ErrSearch)
       => search.resultsFor = <<CurrentQuery>>

C4_Witness ==
    /\ activePage = "search" /\ Quiescent
    /\ search.searchResults # <<>> /\ search.searchError = None
    /\ search.resultsFor = <<CurrentQuery>>
    /\ \E i \in DOMAIN search.issued :
          /\ search.issued[i] = 1 /\ Id(i) \in search.aborted
          /\ Trim(search.rawOf[i]) # CurrentQuery

\* C5: away from the search page searchResults stays empty, searchError
\* null and loading false; no timer of the page is left to fire and no call
\* is left to write a late response.
C5_NothingAfterLeaving ==
    activePage # "search" =>
        /\ search.searchResults = <<>>
        /\ search.searchError = None
        /\ search.searchLoading = FALSE
        /\ search.timers = {}
        /\ search.requests = {}

C5_Witness ==
    /\ activePage # "search" /\ search.cancelledNow
    /\ search.searchResults = <<>> /\ search.requests = {}

\* C6: a pending timer is always the one of the current query value, whose
\* trimmed length is 0 or at least 2; a timer that fires makes exactly one
\* search call, carrying the trimmed query; a query value replaced before
\* its timer fired makes none.
C6_OneRequestPerSettledQuery ==
    /\ \A t \in search.timers :
          /\ activePage = "search"
          /\ t.q = CurrentQuery /\ ~TooShort(t.q)
          /\ search.rawOf[t.id[1]] = search.searchQuery
          /\ search.issued[t.id[1]] = 0
    /\ \A i \in DOMAIN search.issued :
          /\ search.issued[i] <= 1
          /\ Id(i) \in search.replaced => search.issued[i] = 0
          /\ (Id(i) \notin search.replaced /\ \A t \in search.timers : t.id # Id(i))
                => search.issued[i] = 1
    /\ \A r \in search.requests : r.q = Trim(search.rawOf[r.controller[1]])
    /\ (activePage = "search" /\ ~TooShort(CurrentQuery)) =>
          \E i \in DOMAIN search.issued :
              /\ search.rawOf[i] = search.searchQuery
              /\ Id(i) \notin search.replaced

C6_Witness ==
    \E i, j \in DOMAIN search.issued :
        /\ Id(i) \in search.replaced /\ search.issued[i] = 0
        /\ search.issued[j] = 1 /\ search.rawOf[j] = <<"a", "b", Space>>
        /\ \E r \in search.requests : r.controller = Id(j) /\ r.q = <<"a", "b">>

\* C7: with a query of trimmed length 1 on the search page no timer and no
\* call exists (none is issued for it, the one in flight is cancelled),
\* searchResults is empty, no error is set and loading is false.
C7_TooShort ==
    (activePage = "search" /\ Len(CurrentQuery) = 1) =>
        /\ search.timers = {} /\ search.requests = {}
        /\ search.searchResults = <<>>
        /\ search.searchError = None
        /\ search.searchLoading = FALSE
        /\ \A i \in DOMAIN search.rawOf : search.rawOf[i] # search.searchQuery

C7_Witness ==
    /\ activePage = "search" /\ Len(CurrentQuery) = 1 /\ search.cancelledNow
    /\ search.requests = {} /\ search.searchLoading = FALSE

\* C8: at most one search call that has not been cancelled is in flight,
\* never together with a pending timer: the call and the timer of the
\* previous query are gone before a new timer is started.
C8_AtMostOneInFlight ==
    /\ Cardinality(search.requests) + Cardinality(search.timers) <= 1
    /\ \A r \in search.requests :
          r.controller \notin search.aborted /\ r.controller = Id(search.nextId - 1)
    /\ \A t \in search.timers : t.id = Id(search.nextId - 1)

C8_Witness ==
    /\ search.cancelledNow /\ Cardinality(search.timers) = 1
    /\ search.requests = {}

(***************************************************************************)
(* Specification of the profile navigation: a signed-in user (with or      *)
(* without a stored user id) moving between the own profile, the profiles  *)
(* of other users and the search page, and the responses of the fetches    *)
(* this starts.                                                            *)
(***************************************************************************)
InitProfile ==
    /\ currentUser = Me
    /\ LoggedIn(Me)
    /\ storedUserId \in {Me, None}
    /\ backend = DefaultBackend
    /\ gallery = IF storedUserId = None THEN <<>> ELSE FetchedGallery(Me, backend, Me)
    /\ message = NoMessage
    /\ pending = EmptyBag
    /\ log = <<>>
    /\ activePage = "home"
    /\ currentView = "upload"
    /\ viewingProfile = Null
    /\ viewingProfileStats = Null
    /\ isFollowing = FALSE
    /\ userFollowers = 0
    /\ userFollowing = 0
    /\ profileClick = Null
    /\ commentingItem = Null
    /\ search = SearchInit

NextProfile ==
    \/ \E u \in Users : HandleViewProfile(Profile(u))
    \/ HandleBackToMyProfile
    \/ \E view \in {"upload", "profile"} : SetCurrentView(view)
    \/ \E page \in {"home", "search"} : SetActivePage(page)
    \/ \E r \in InFlight : \E data \in StatsData(r.target) : FollowStatsFetched(r, data)
    \/ \E r \in InFlight : FollowStatsFails(r)
    \/ \E r \in InFlight, b \in BOOLEAN : IsFollowingFetched(r, b)
    \/ \E r \in InFlight : IsFollowingFails(r)
    \/ \E r \in InFlight : \E data \in StatsData(r.target) : OwnStatsFetched(r, data)
    \/ \E r \in InFlight : OwnStatsFails(r)
    \/ \E r \in InFlight : GalleryFetched(r)
    \/ \E r \in InFlight : GalleryFetchFails(r)

SpecProfile == InitProfile /\ [][NextProfile]_vars

(***************************************************************************)
(* The profile navigation together with the follow / unfollow buttons of   *)
(* a viewed profile.                                                       *)
(***************************************************************************)
NextFollow ==
    \/ NextProfile
    \/ \E u \in Users : HandleFollow(u)
    \/ \E u \in Users : HandleUnfollow(u)
    \/ \E r \in InFlight : FollowSettled(r)
    \/ \E r \in InFlight : FollowFails(r)
    \/ \E r \in InFlight : \E data \in StatsData(r.target) : StatsRefreshed(r, data)
    \/ \E r \in InFlight : StatsRefreshFails(r)

SpecFollow == InitProfile /\ [][NextFollow]_vars

(***************************************************************************)
(* Properties of the profile navigation                                    *)
(***************************************************************************)
\* C9: a step of handleViewProfile(user) leaves the profile context self
\* (viewingProfile null, viewingProfileStats null, isFollowing false) when
\* user.id is the session's own user id and other with viewingProfile = user
\* for any other id; in both cases the home page shows the profile view.
C9_ViewProfileResolvesContext ==
    [][\A u \in Users :
          HandleViewProfile(Profile(u)) =>
              /\ IF u = getCurrentUserId
                 THEN /\ viewingProfile' = Null
                      /\ viewingProfileStats' = Null
                      /\ isFollowing' = FALSE
                 ELSE viewingProfile' = Profile(u)
              /\ activePage' = "home"
              /\ currentView' = "profile"]_vars

\* the own entry was clicked while another profile's fetches were in flight
C9_Witness ==
    /\ profileClick = Profile(getCurrentUserId)
    /\ viewingProfile = Null
    /\ viewingProfileStats = Null
    /\ isFollowing = FALSE
    /\ activePage = "home" /\ currentView = "profile"
    /\ search.nextId > 1
    /\ \E r \in InFlight : r.kind = "followStats"

\* C10: from handleBackToMyProfile until the next handleViewProfile,
\* viewingProfileStats is null and isFollowing is false, whatever responses
\* of the abandoned profile arrive.
C10_AbandonedResponsesIgnored ==
    profileClick = Null => viewingProfileStats = Null /\ isFollowing = FALSE

\* the user whose profile is shown: the viewed one, else the session user
CurrentTarget ==
    IF viewingProfile # Null THEN viewingProfile.id ELSE getCurrentUserId

\* C11: once no response is outstanding, follow counts that were fetched
\* for a viewed profile are the ones of the profile viewed now, not those of
\* a profile viewed before.
C11_ValuesOfCurrentTarget ==
    (pending = EmptyBag /\ viewingProfile # Null
       /\ "of" \in DOMAIN viewingProfileStats)
    => viewingProfileStats.of = CurrentTarget

\* the users whose posts a gallery holds
GalleryOwners(g) == {g[k].originalFilename[2] : k \in DOMAIN g}

\* C12: when a fetch made for the profile shown now fails, what it was to
\* load falls back to a default: the follow counts to 0/0, isFollowing to
\* false, and the gallery keeps no post of a profile viewed before.
C12_FailedFetchFallsBack ==
    [][\A r \in InFlight :
          r.target = CurrentTarget =>
              /\ FollowStatsFails(r) => viewingProfileStats' = ZeroStats
              /\ IsFollowingFails(r) => isFollowing' = FALSE
              /\ GalleryFetchFails(r) =>
                     GalleryOwners(gallery') \subseteq {CurrentTarget}]_vars

ShownCountsFromStats ==
    IF viewingProfileStats # Null
    THEN <<viewingProfileStats.followers, viewingProfileStats.following>>
    ELSE <<userFollowers, userFollowing>>

\* the follower and following numbers the profile header renders
ShownCounts ==
    IF viewingProfile # Null
    THEN IF viewingProfileStats # Null
         THEN <<viewingProfileStats.followers, viewingProfileStats.following>>
         ELSE <<0, 0>>
    ELSE <<userFollowers, userFollowing>>

\* C14: on the own profile the counts shown are userFollowers and
\* userFollowing, and these are written only by the response (or the 0/0
\* fallback) of a follow-stats fetch made for the session's own id: counts
\* of a user viewed before are never shown there.
C14_OwnCountsOnOwnProfile ==
    [][/\ viewingProfile' = Null => ShownCounts' = <<userFollowers', userFollowing'>>
       /\ <<userFollowers', userFollowing'>> # <<userFollowers, userFollowing>>
          => \E r \in InFlight :
                /\ r.kind = "ownStats" /\ r.target = getCurrentUserId
                /\ \/ OwnStatsFails(r)
                   \/ \E data \in StatsData(getCurrentUserId) :
                         OwnStatsFetched(r, data)]_vars

\* back on the own profile a late response has stored the counts of the
\* profile viewed before, which differ from the own ones shown
C14_Witness ==
    /\ profileClick = Null /\ viewingProfile = Null
    /\ activePage = "home" /\ currentView = "profile"
    /\ "of" \in DOMAIN viewingProfileStats
    /\ viewingProfileStats.of # getCurrentUserId
    /\ viewingProfileStats.followers # userFollowers
    /\ ShownCounts = <<userFollowers, userFollowing>>

\* C15: a change of the page or of the home sub-view leaves viewingProfile
\* as it is; only handleViewProfile and handleBackToMyProfile change it.
C15_NavigationKeepsProfile ==
    [][/\ (\/ \E page \in {"home", "search"} : SetActivePage(page)
           \/ \E view \in {"upload", "profile"} : SetCurrentView(view))
          => viewingProfile' = viewingProfile
       /\ viewingProfile' # viewingProfile
          => \/ \E u \in Users : HandleViewProfile(Profile(u))
             \/ HandleBackToMyProfile]_vars

\* the search page was opened while another user's profile was viewed
C15_Witness ==
    /\ activePage = "search"
    /\ viewingProfile = Profile("u2") /\ profileClick = Profile("u2")

(***************************************************************************)
(* Specification of the comment modal next to the like toggle, the other   *)
(* handler that writes the gallery items the modal comments on; no refetch.*)
(***************************************************************************)
InitComment ==
    /\ InitMutation
    /\ backend = DefaultBackend

NextComment ==
    \/ \E i \in ItemIndex : HandleToggleLike(i)
    \/ \E r \in InFlight : LikeSucceeds(r)
    \/ \E r \in InFlight : LikeFails(r)
    \/ \E i \in ItemIndex : OpenCommentModal(i)
    \/ CloseCommentModal
    \/ \E presetId \in Presets : HandleAddComment(presetId)
    \/ \E r \in InFlight : CommentConfirmed(r)
    \/ \E r \in InFlight : CommentFails(r)

SpecComment == InitComment /\ [][NextComment]_vars

(***************************************************************************)
(* Specification of every handler that writes the gallery without a        *)
(* refetch: likes, visibility changes and comments, interleaved.           *)
(***************************************************************************)
NextGalleryWrites ==
    \/ NextComment
    \/ \E i \in ItemIndex : HandleToggleVisibility(i)
    \/ \E r \in InFlight : VisibilitySucceeds(r)
    \/ \E r \in InFlight : VisibilityFails(r)

SpecGalleryWrites == InitComment /\ [][NextGalleryWrites]_vars

(***************************************************************************)
(* Properties of the comment flow                                          *)
(***************************************************************************)
\* the record the backend stored last for post ref
StoredLast(b, ref) == b[ref].comments[Len(b[ref].comments)]

IsPrefix(s, t) == Len(s) <= Len(t) /\ SubSeq(t, 1, Len(s)) = s

\* C18: a comment creation the backend confirms adds the record the server
\* returned exactly once, at the end of the commented item's comments, and
\* raises that item's commentCount by exactly 1; every other item, and every
\* other field of the commented item, is unchanged.
C18_ConfirmedCommentAppendedOnce ==
    [][\A r \in InFlight :
          CommentConfirmed(r) =>
              LET record == StoredLast(backend', r.ref) IN
              /\ DOMAIN gallery' = DOMAIN gallery
              /\ \E k \in DOMAIN gallery : gallery[k].id = r.id
              /\ \A k \in DOMAIN gallery :
                    IF gallery[k].id = r.id
                    THEN /\ gallery'[k].comments = Append(gallery[k].comments, record)
                         /\ Cardinality({j \in DOMAIN gallery'[k].comments :
                                            gallery'[k].comments[j] = record}) = 1
                         /\ gallery'[k].commentCount = gallery[k].commentCount + 1
                         /\ [gallery'[k] EXCEPT !.comments = gallery[k].comments,
                                                !.commentCount = gallery[k].commentCount]
                               = gallery[k]
                    ELSE gallery'[k] = gallery[k]]_vars

\* a second comment on the same item has just been confirmed: the item shows
\* both records, the server's latest one last
C18_Witness ==
    /\ Len(log) > 0 /\ Last.ev = "ok" /\ Last.kind = "comment"
    /\ \E k \in DOMAIN gallery :
          /\ gallery[k].id = Last.id
          /\ Len(gallery[k].comments) = 2
          /\ gallery[k].commentCount = 2
          /\ gallery[k].comments[2] = StoredLast(backend, gallery[k].originalFilename)

\* C19: handleAddComment inserts nothing before the confirmation: the call
\* leaves the gallery as it was, and without a session it sets an error
\* message and sends nothing; a failed request leaves the gallery as it was
\* and sets an error message.
C19_NoOptimisticInsert ==
    [][/\ \A presetId \in Presets :
             HandleAddComment(presetId) =>
                 /\ gallery' = gallery
                 /\ getCurrentUserId = None =>
                       /\ message'.type = "error"
                       /\ pending' = pending
                       /\ backend' = backend
       /\ \A r \in InFlight :
             CommentFails(r) =>
                 /\ gallery' = gallery
                 /\ message'.type = "error"]_vars

\* a comment request has just failed: the error is shown and no item has a
\* comment
C19_Witness ==
    /\ Len(log) > 0 /\ Last.ev = "fail" /\ Last.kind = "comment"
    /\ message = MsgCommentFailed
    /\ \A k \in DOMAIN gallery :
          gallery[k].comments = <<>> /\ gallery[k].commentCount = 0

\* C20: the comments of a gallery item only grow at the end and its
\* commentCount never decreases, whatever like, visibility or comment step
\* is taken.
C20_CommentsAppendOnly ==
    [][\A k \in DOMAIN gallery :
          /\ k \in DOMAIN gallery'
          /\ IsPrefix(gallery[k].comments, gallery'[k].comments)
          /\ gallery'[k].commentCount >= gallery[k].commentCount]_vars

(***************************************************************************)
(* Specification of the gallery items' counters: likes, comments and       *)
(* uploads on the own gallery, interleaved, no refetch.                    *)
(***************************************************************************)
GalleryIndex == 1..(NumItems + MaxMutations)
\* the visibility selector of the upload form is left at its initial value
UploadVisibilities == {"public"}

\* one predefined comment is offered: the counters do not read which one
CounterPresets == {1}

\* a session with a stored user id: likes and comments need one
InitUpload ==
    /\ InitComment
    /\ storedUserId = Me

NextUpload ==
    \/ \E i \in GalleryIndex : HandleToggleLike(i)
    \/ \E r \in InFlight : LikeSucceeds(r)
    \/ \E r \in InFlight : LikeFails(r)
    \/ \E i \in GalleryIndex : OpenCommentModal(i)
    \/ CloseCommentModal
    \/ \E presetId \in CounterPresets : HandleAddComment(presetId)
    \/ \E r \in InFlight : CommentConfirmed(r)
    \/ \E r \in InFlight : CommentFails(r)
    \/ \E visibility \in UploadVisibilities : HandleUpload(visibility)
    \/ \E r \in InFlight : UploadStored(r)
    \/ \E r \in InFlight : TransformDone(r)
    \/ \E r \in InFlight : UploadFails(r)

SpecUpload == InitUpload /\ [][NextUpload]_vars

\* C21: every gallery item has likeCount >= 0 and commentCount >= 0, and a
\* liked item has likeCount >= 1, in every state reached by like toggles,
\* their rollbacks, comments and uploads from a fetched gallery.
C21_CountersInRange ==
    \A k \in DOMAIN gallery :
        /\ gallery[k].likeCount >= 0
        /\ gallery[k].commentCount >= 0
        /\ gallery[k].isLiked => gallery[k].likeCount >= 1

\* an uploaded item, which starts with no like, was liked and the failed
\* call has rolled the like back: its likeCount is 0 again
C21_Witness ==
    \E k \in DOMAIN gallery :
        /\ gallery[k].id[1] = "now"
        /\ gallery[k].likeCount = 0
        /\ ~gallery[k].isLiked
        /\ \E j \in DOMAIN log :
              log[j].ev = "fail" /\ log[j].kind = "like" /\ log[j].id = gallery[k].id

(***************************************************************************)
(* Specification of the session: the page as loaded with whatever client   *)
(* storage holds, login, registration, logout and reload, and in the main  *)
(* application the page navigation with the fetches and searches it starts.*)
(***************************************************************************)
AuthUsers == {"me", "u2"}
StoredMarkers == {Null, MarkerNoUsername} \cup {Marker(u) : u \in AuthUsers}

\* the state a page load leaves, per content of client storage
InitAuth ==
    /\ storedAuth \in StoredMarkers
    /\ storedUserId \in {None, Me}
    /\ storedToken \in {None, Me}
    /\ storedRefreshToken = storedToken
    /\ isAuthenticated = BootstrapAuthenticates(storedAuth)
    /\ currentUser = IF isAuthenticated THEN MarkerUsername(storedAuth) ELSE None
    /\ showRegister = FALSE
    /\ backend = DefaultBackend
    /\ gallery = <<>>
    /\ message = NoMessage
    /\ pending = SetToBag(
          {[r EXCEPT !.user = currentUser] :
              r \in GalleryRequests("home", "upload", Null, getCurrentUserId)}
            \cup OwnStatsRequests(Null, currentUser, getCurrentUserId))
    /\ log = <<>>
    /\ activePage = "home"
    /\ currentView = "upload"
    /\ viewingProfile = Null
    /\ viewingProfileStats = Null
    /\ isFollowing = FALSE
    /\ userFollowers = 0
    /\ userFollowing = 0
    /\ profileClick = Null
    /\ commentingItem = Null
    /\ search = SearchInit

NextAuth ==
    \/ \E u \in AuthUsers : LoginSucceeds(u)
    \/ \E u \in AuthUsers : RegisterSucceeds(u)
    \/ \E show \in BOOLEAN : SetShowRegister(show)
    \/ HandleLogout
    \/ Reload
    \/ Screen = "main" /\ \E page \in {"home", "search"} : SetActivePage(page)
    \/ \E t \in search.timers : TimerFires(t)
    \/ \E r \in search.requests, results \in ResultLists : SearchResponds(r, results)
    \/ \E r \in search.requests : SearchFails(r)
    \/ \E r \in InFlight : GalleryFetched(r)
    \/ \E r \in InFlight : GalleryFetchFails(r)
    \/ \E r \in InFlight : \E data \in StatsData(r.target) : OwnStatsFetched(r, data)
    \/ \E r \in InFlight : OwnStatsFails(r)

SpecAuth == InitAuth /\ [][NextAuth]_vars

\* C22: without authentication the component returns the login screen, or
\* the registration screen once the register link was used, never the main
\* application; the main application appears only by the success callback
\* of Login or Register, or by a page load that finds a stored marker with
\* a username.
C22_AuthGate ==
    /\ Screen = "main" => "username" \in DOMAIN storedAuth
    /\ [](~isAuthenticated => Screen \in {"login", "register"})
    /\ [][/\ (Screen' = "main" /\ (Screen # "main" \/ Reload)) =>
                \/ \E u \in AuthUsers : LoginSucceeds(u) \/ RegisterSucceeds(u)
                \/ Reload /\ "username" \in DOMAIN storedAuth
          /\ (Screen' = "register" /\ Screen # "register") =>
                \/ SetShowRegister(TRUE)
                \/ HandleLogout /\ showRegister]_vars

\* u2 has registered, used the main application and logged out: the
\* registration screen is shown again
C22_Witness ==
    /\ Screen = "register"
    /\ storedToken = "u2"
    /\ storedAuth = Null

\* C23: handleLogout leaves the app unauthenticated without a current user
\* and leaves none of the persisted credentials in client storage: no
\* marker, no user id, no access token, no refresh token, so that a later
\* call carries no bearer credential.
C23_LogoutDestroysSession ==
    [][HandleLogout =>
          /\ ~isAuthenticated'
          /\ currentUser' = None
          /\ storedAuth' = Null
          /\ storedUserId' = None
          /\ storedToken' = None
          /\ storedRefreshToken' = None
          /\ Bearer' = None]_vars

(***************************************************************************)
(* Specification of clearGallery on the own gallery, next to the like      *)
(* toggle; the posts the server has deleted are not read again.            *)
(***************************************************************************)
NextClear ==
    \/ \E i \in ItemIndex : HandleToggleLike(i)
    \/ \E r \in InFlight : LikeSucceeds(r)
    \/ \E r \in InFlight : LikeFails(r)
    \/ ClearGallery
    \/ \E r \in InFlight : \E ref \in Posts : ClearDeleteSucceeds(r, ref)
    \/ \E r \in InFlight : \E ref \in Posts : ClearDeleteFails(r, ref)

SpecClear == InitMutation /\ [][NextClear]_vars

\* C24: when a DELETE of clearGallery fails the gallery still ends empty,
\* and the message is not an error but a summary that counts the deletes
\* that succeeded against the total.
C24_ClearIsBestEffort ==
    [][\A r \in InFlight : \A ref \in Posts :
          ClearDeleteFails(r, ref) =>
              /\ gallery' = <<>>
              /\ message'.type # "error"
              /\ "deleted" \in DOMAIN message'
              /\ message'.deleted = r.done
              /\ message'.total = r.total]_vars

\* C25: when a new query supersedes a search call that is in flight, the
\* completion of the cancelled call changes nothing: searchResults,
\* searchError and the loading status are the ones the effect of the new
\* query has set.
C25_CancelledCompletionIgnored ==
    [][\A q \in Queries :
          (HandleSearchInput(q) /\ search'.cancelledNow) =>
              LET set == SearchEffect(
                             SearchCleanup([search EXCEPT !.searchQuery = q]),
                             activePage)
              IN  /\ search'.searchResults = set.searchResults
                  /\ search'.searchError = set.searchError
                  /\ search'.searchLoading = set.searchLoading]_vars

\* C26: the status is loading from the moment the debounce timer fires and
\* the search call is made, not before: it is not loading while a debounce
\* timer is pending, and it is loading while the call of a fired timer is in
\* flight.
C26_LoadingFromTimerFire ==
    /\ search.timers # {} => ~search.searchLoading
    /\ search.requests # {} => search.searchLoading

\* C27: a search call that was not superseded settles as follows: a
\* response with results replaces searchResults with the mapped results,
\* clears the error and ends loading; an empty response replaces
\* searchResults and sets the no-results message, not the transport one; a
\* transport error sets the generic message and ends loading, the results
\* stay.
C27_SearchOutcome ==
    [][\A r \in search.requests :
          /\ \A results \in ResultLists :
                SearchResponds(r, results) =>
                    /\ search'.searchResults = MapResults(results)
                    /\ ~search'.searchLoading
                    /\ search'.searchError =
                          IF results = <<>> THEN ErrNoResults ELSE None
          /\ SearchFails(r) =>
                /\ search'.searchError = ErrSearch
                /\ ~search'.searchLoading
                /\ search'.searchResults = search.searchResults]_vars

\* an empty response to a later query has settled: the list is empty and
\* the no-results message is set
C27_Witness ==
    /\ search.searchResults = <<>>
    /\ search.searchError = ErrNoResults
    /\ ~search.searchLoading
    /\ search.resultsFor # <<>>
    /\ Len(search.issued) >= 2

AllSpaces(q) == \A k \in DOMAIN q : q[k] = Space
Trimmed(q) == q = <<>> \/ (q[1] # Space /\ q[Len(q)] # Space)

\* C28: a query that is empty or only whitespace is handled like the
\* initial empty query: the debounce timer is started and its call carries
\* q = "", the too-short branch is not taken; every timer and every call
\* carries the trimmed query of the effect run that made it.
C28_WhitespaceIsEmptyQuery ==
    /\ [](/\ \A t \in search.timers :
                /\ Trimmed(t.q)
                /\ AllSpaces(search.rawOf[t.id[1]]) => t.q = <<>>
          /\ \A r \in search.requests :
                /\ Trimmed(r.q)
                /\ AllSpaces(search.rawOf[r.controller[1]]) => r.q = <<>>)
    /\ [][\A q \in Queries :
             (HandleSearchInput(q) /\ AllSpaces(q)) =>
                 /\ search'.timers # {}
                 /\ \A t \in search'.timers : t.q = <<>>
                 /\ search'.searchDelayRef # NoId
                 /\ [search' EXCEPT !.searchQuery = <<>>, !.rawOf = <<>>] =
                    [RunSearchEffect([search EXCEPT !.searchQuery = <<>>], activePage)
                        EXCEPT !.rawOf = <<>>]]_vars

\* the call of a whitespace-only query is in flight with q = ""
C28_Witness ==
    \E r \in search.requests :
        /\ r.q = <<>>
        /\ search.rawOf[r.controller[1]] = <<Space>>
        /\ search.searchQuery = <<Space>>

(***************************************************************************)
(* Specification of the search page across sessions: the search handlers   *)
(* of a signed-in user together with logout and login.                     *)
(***************************************************************************)
\* one query of each kind: empty, too short, long enough
SessionQueries == {<<>>, <<"a">>, <<"a", "b">>}

InitSession ==
    /\ InitSearch
    /\ currentView = "upload"

NextSession ==
    \/ Screen = "main" /\ \E q \in SessionQueries : HandleSearchInput(q)
    \/ Screen = "main" /\ \E page \in {"home", "search"} : SetActivePage(page)
    \/ Screen = "main" /\ pending = EmptyBag /\ \E k \in 1..2 : HandleSelectUser(k)
    \/ \E r \in InFlight : SelectedFollowFetched(r, FALSE)
    \/ \E r \in InFlight : SelectedFollowFails(r)
    \/ \E t \in search.timers : TimerFires(t)
    \/ \E r \in search.requests, results \in ResultLists : SearchResponds(r, results)
    \/ \E r \in search.requests : SearchFails(r)
    \/ HandleLogout
    \/ \E u \in AuthUsers : LoginSucceeds(u)
    \/ \E r \in InFlight : GalleryFetched(r)
    \/ \E r \in InFlight : GalleryFetchFails(r)
    \/ \E r \in InFlight : \E data \in StatsData(r.target) : OwnStatsFetched(r, data)
    \/ \E r \in InFlight : OwnStatsFails(r)

SpecSession == InitSession /\ [][NextSession]_vars

\* the search state of a page that is not the search page
SearchIsReset ==
    /\ search.searchQuery = <<>>
    /\ search.selectedUser = Null
    /\ search.searchResults = <<>>
    /\ search.searchError = None
    /\ ~search.searchLoading
    /\ search.timers = {}
    /\ search.requests = {}

\* C29 as stated, in a consequence of its last part: when the first call of
\* a visit of the search page is the one of the empty query, every call
\* with another query comes after some call made for the empty query.
C29_FirstRequestIsDefault ==
    [][\A t \in search.timers :
          (TimerFires(t) /\ t.q # <<>>) =>
              \E i \in 1..(t.id[1] - 1) :
                  search.rawOf[i] = <<>> /\ search.issued[i] >= 1]_vars

\* C29: off the search page the query is empty, no user is selected, the
\* results are empty, no error is set, loading is false and neither a timer
\* nor an uncancelled call exists; login and logout leave the same state;
\* entering the search page starts the debounce timer of the default
\* empty-query call and nothing else.
C29_SessionEndsWithPage ==
    /\ [](activePage # "search" => SearchIsReset)
    /\ [][/\ (HandleLogout \/ \E u \in AuthUsers : LoginSucceeds(u)) =>
                (activePage' = "home" /\ SearchIsReset')
          /\ SetActivePage("search") =>
                /\ search'.requests = {}
                /\ \E t \in search'.timers :
                      search'.timers = {t} /\ t.q = <<>>]_vars

\* a call for a typed query was made, then the user logged out: nothing
\* of the search is left
C29_Witness ==
    /\ ~isAuthenticated
    /\ SearchIsReset
    /\ \E i \in DOMAIN search.issued : search.issued[i] >= 1 /\ search.rawOf[i] # <<>>

\* C30: whenever the search page displays a result list (not loading, no
\* error, results not empty), the list is the response to the current
\* trimmed query, and no timer or call of a query is pending behind it.
C30_DisplayedResultsAreCurrent ==
    (/\ activePage = "search"
     /\ ~search.searchLoading
     /\ search.searchError = None
     /\ search.searchResults # <<>>) =>
        /\ search.resultsFor = <<CurrentQuery>>
        /\ Quiescent


(***************************************************************************)
(* Specification of gallery mutations across a change of profile: a        *)
(* signed-in user on the own profile who likes items or toggles their      *)
(* visibility and moves between the own profile and the profiles of other  *)
(* users while the calls and the fetches are outstanding.                  *)
(***************************************************************************)
\* the profile the viewer opens from the own one
SwitchUsers == {"u2"}
\* nobody follows anybody on the server of this specification
NoFollowStats(u) == [followers |-> 0, following |-> 0, of |-> u]

InitSwitch == InitComment /\ storedUserId = Me

NextSwitch ==
    \/ \E i \in ItemIndex : HandleToggleLike(i)
    \/ \E i \in ItemIndex : HandleToggleVisibility(i)
    \/ \E r \in InFlight : LikeSucceeds(r)
    \/ \E r \in InFlight : LikeFails(r)
    \/ \E r \in InFlight : VisibilitySucceeds(r)
    \/ \E r \in InFlight : VisibilityFails(r)
    \/ \E u \in SwitchUsers : HandleViewProfile(Profile(u))
    \/ HandleBackToMyProfile
    \/ \E r \in {x \in InFlight : x.kind = "followStats"} :
          FollowStatsFetched(r, NoFollowStats(r.target))
    \/ \E r \in InFlight : FollowStatsFails(r)
    \/ \E r \in InFlight : IsFollowingFetched(r, FALSE)
    \/ \E r \in InFlight : IsFollowingFails(r)
    \/ \E r \in {x \in InFlight : x.kind = "ownStats"} :
          OwnStatsFetched(r, NoFollowStats(r.target))
    \/ \E r \in InFlight : OwnStatsFails(r)
    \/ \E r \in InFlight : GalleryFetched(r)
    \/ \E r \in InFlight : GalleryFetchFails(r)

SpecSwitch == InitSwitch /\ [][NextSwitch]_vars

\* C31: a like or visibility call that fails after the viewer has switched
\* to another profile does not replace the gallery loaded for the new
\* target: when the gallery holds the posts of the profile shown now, it
\* still holds posts of that profile only after the failure is handled.
C31_RollbackKeepsLoadedGallery ==
    [][\A r \in InFlight :
          (/\ LikeFails(r) \/ VisibilityFails(r)
           /\ GalleryOwners(gallery) = {CurrentTarget})
          => GalleryOwners(gallery') = {CurrentTarget}]_vars


(***************************************************************************)
(* Specification of the profile context across sessions: login,            *)
(* registration and logout as any user, and in the main application the    *)
(* opening of profiles and the way back to the own one, with the fetches   *)
(* this starts.                                                            *)
(***************************************************************************)
NextIdentity ==
    \/ \E u \in AuthUsers : LoginSucceeds(u)
    \/ \E u \in AuthUsers : RegisterSucceeds(u)
    \/ \E show \in BOOLEAN : SetShowRegister(show)
    \/ HandleLogout
    \/ Screen = "main" /\ \E u \in AuthUsers : HandleViewProfile(Profile(u))
    \/ Screen = "main" /\ HandleBackToMyProfile
    \/ \E r \in {x \in InFlight : x.kind = "followStats"} :
          FollowStatsFetched(r, NoFollowStats(r.target))
    \/ \E r \in InFlight : FollowStatsFails(r)
    \/ \E r \in InFlight : IsFollowingFetched(r, FALSE)
    \/ \E r \in InFlight : IsFollowingFails(r)
    \/ \E r \in {x \in InFlight : x.kind = "ownStats"} :
          OwnStatsFetched(r, NoFollowStats(r.target))
    \/ \E r \in InFlight : OwnStatsFails(r)
    \/ \E r \in InFlight : GalleryFetched(r)
    \/ \E r \in InFlight : GalleryFetchFails(r)

SpecIdentity == InitAuth /\ [][NextIdentity]_vars

\* C32: in an authenticated session viewingProfile is null or the profile
\* of a user other than the session's own: the own profile is never shown
\* as the profile of another user.
C32_NoOtherViewOfSelf ==
    (isAuthenticated /\ viewingProfile # Null)
        => viewingProfile.id # storedUserId


\* the calls a step makes through the api client
Issued(p, q) == {r \in BagToSet(q) : CopiesIn(r, q) > CopiesIn(r, p)}

\* C33: the calls made through the api client in the session of a user
\* who has just logged in or registered carry no bearer token or the access
\* token issued to that user, whatever registrations, logins and logouts
\* came before.
C33_BearerIsOfCurrentUser ==
    [][\A u \in AuthUsers :
          ((LoginSucceeds(u) \/ RegisterSucceeds(u))
             /\ Issued(pending, pending') # {})
          => Bearer' \in {None, u}]_vars


(***************************************************************************)
(* Specification of the search preview: a signed-in user who opens the     *)
(* search page, picks users from the results and closes the preview while  *)
(* the is-following calls of the picks are outstanding.                    *)
(***************************************************************************)
NextPreview ==
    \/ \E page \in {"home", "search"} : SetActivePage(page)
    \/ \E t \in search.timers : TimerFires(t)
    \/ \E r \in search.requests, results \in ResultLists : SearchResponds(r, results)
    \/ \E r \in search.requests : SearchFails(r)
    \/ \E r \in InFlight : GalleryFetched(r)
    \/ \E r \in InFlight : GalleryFetchFails(r)
    \/ \E k \in 1..2 : HandleSelectUser(k)
    \/ ClearSelectedUser
    \/ \E r \in InFlight, b \in BOOLEAN : SelectedFollowFetched(r, b)
    \/ \E r \in InFlight : SelectedFollowFails(r)

SpecPreview == InitSession /\ [][NextPreview]_vars

\* C34: in the search preview selectedUserIsFollowing refers to the user
\* selected now: once no is-following call of handleSelectUser is
\* outstanding, the flag is the answer returned for the last selection,
\* whatever the order in which the answers arrived; and a response that
\* arrives when no user is selected leaves the flag alone.
C34_FlagOfSelectedUser ==
    /\ [](( /\ search.selectedUser # Null
            /\ search.followAnswer # Null
            /\ \A r \in InFlight : r.kind # "selectedIsFollowing")
          => search.selectedUserIsFollowing = search.followAnswer.value)
    /\ [][\A r \in InFlight :
            ((\E b \in BOOLEAN : SelectedFollowFetched(r, b))
               /\ activePage = "search" /\ search.selectedUser = Null)
            => search'.selectedUserIsFollowing
                 = search.selectedUserIsFollowing]_vars


\* C35: handleFollow and handleUnfollow are not optimistic.  isFollowing
\* changes, to true respectively false, exactly when the follow / unfollow
\* call itself has succeeded; the error message is set exactly when that
\* call failed or no user id was stored; and no error message is set for
\* an action whose change of the follow state was applied.
C35_FollowNotOptimistic ==
    [][/\ \A u \in Users :
            (HandleFollow(u) \/ HandleUnfollow(u)) =>
                /\ isFollowing' = isFollowing
                /\ getCurrentUserId = None => message' = MsgNoUserId
                /\ getCurrentUserId # None => message' = message
       /\ \A r \in InFlight :
            /\ FollowSettled(r) =>
                /\ isFollowing' = (r.kind = "follow")
                /\ message' \in {MsgFollowed, MsgUnfollowed}
            /\ FollowFails(r) =>
                /\ isFollowing' = isFollowing
                /\ message' \in {MsgFollowFailed, MsgUnfollowFailed}
            /\ StatsRefreshFails(r) =>
                /\ isFollowing' = isFollowing
                /\ message' \notin {MsgFollowFailed, MsgUnfollowFailed}]_vars


(***************************************************************************)
(* Specification of removeFromGallery on the own gallery, next to the like *)
(* toggle; the posts the server has deleted are not read again.            *)
(***************************************************************************)
OwnItemIds == {ItemId(Me, i) : i \in ItemIndex}

NextRemove ==
    \/ \E i \in ItemIndex : HandleToggleLike(i)
    \/ \E r \in InFlight : LikeSucceeds(r)
    \/ \E r \in InFlight : LikeFails(r)
    \/ \E id \in OwnItemIds : RemoveFromGallery(id)
    \/ \E r \in InFlight : RemoveSucceeds(r)
    \/ \E r \in InFlight : RemoveFails(r)

SpecRemove == InitMutation /\ [][NextRemove]_vars

\* the positions of g that hold an item with another id than id
Kept(g, id) == {k \in DOMAIN g : g[k].id # id}

\* h is g without its items of the given id, the others as they were and
\* in their order
IsWithout(h, g, id) ==
    /\ Len(h) = Cardinality(Kept(g, id))
    /\ \A k \in Kept(g, id) :
          h[Cardinality({j \in Kept(g, id) : j <= k})] = g[k]

\* C36: when removeFromGallery(id) completes, with the delete succeeded or
\* failed, the item of that id is absent and all other items are unchanged
\* and in the same order; the message is a success message after a
\* successful delete and an error message after a failed one; a call for
\* an id not in the gallery changes nothing and makes no call.
C36_RemoveAlwaysRemoves ==
    [][/\ \A r \in InFlight :
            /\ RemoveSucceeds(r) =>
                  IsWithout(gallery', gallery, r.id) /\ message'.type = "success"
            /\ RemoveFails(r) =>
                  IsWithout(gallery', gallery, r.id) /\ message'.type = "error"
       /\ \A id \in OwnItemIds :
            (RemoveFromGallery(id) /\ \A k \in DOMAIN gallery : gallery[k].id # id)
               => UNCHANGED <<gallery, message, pending, backend>>]_vars

\* a delete that failed has removed the second item of the gallery and set
\* the error message, the first item is still there
C36_Witness ==
    /\ Len(log) > 0 /\ Last.ev = "fail" /\ Last.kind = "remove"
    /\ Last.id = ItemId(Me, 2)
    /\ message = MsgRemoveFailed
    /\ Len(gallery) = NumItems - 1
    /\ gallery[1].id = ItemId(Me, 1)


\* the last four events of log are two like toggles of one item, each
\* confirmed by the backend before anything else was started
TwoConfirmedToggles ==
    LET n == Len(log) IN
    /\ n >= 4
    /\ log[n - 3].ev = "start" /\ log[n - 3].kind \in {"like", "unlike"}
    /\ log[n - 2].ev = "ok" /\ log[n - 2].n = n - 3
    /\ log[n - 1].ev = "start" /\ log[n - 1].kind \in {"like", "unlike"}
    /\ log[n].ev = "ok" /\ log[n].n = n - 1
    /\ log[n - 1].id = log[n - 3].id

\* C37: two consecutive like toggles of one item, each confirmed by the
\* backend before the next one starts, bring the item's isLiked and
\* likeCount back to their values before the first toggle, make one POST
\* and one DELETE, the first chosen by the isLiked the item had, and leave
\* every other item unchanged.
C37_LikeToggleInvolution ==
    TwoConfirmedToggles =>
        LET first  == log[Len(log) - 3]
            second == log[Len(log) - 1]
            before == first.pre
            k      == IndexOf(before, first.id)
        IN  /\ DOMAIN gallery = DOMAIN before
            /\ gallery[k].isLiked = before[k].isLiked
            /\ gallery[k].likeCount = before[k].likeCount
            /\ \A j \in DOMAIN before : j # k => gallery[j] = before[j]
            /\ first.kind = IF before[k].isLiked THEN "unlike" ELSE "like"
            /\ second.kind = IF before[k].isLiked THEN "like" ELSE "unlike"

\* an item that was not liked has been liked and unliked again, both calls
\* confirmed
C37_Witness ==
    /\ TwoConfirmedToggles
    /\ log[Len(log) - 3].kind = "like"
    /\ log[Len(log) - 1].kind = "unlike"
    /\ backend[log[Len(log)].id[3]].liked = FALSE

=============================================================================
